---- MODULE Spec2Model ----
(***************************************************************************)
(* A model of three parts of the kanzi-go compressor:                      *)
(*   - the TPAQ context-mixing bit predictor (entropy/TPAQPredictor.go),   *)
(*   - the escaped run length transform (function/RLT.go),                 *)
(*   - the text codec and the x86 codec (function/TextCodec.go).           *)
(* Go's int32 arithmetic is modelled with its wrap-around: a 32-bit value  *)
(* is an integer in -2^31 .. 2^31-1 and every operation that can leave     *)
(* that range is computed on 16-bit halves.                                *)
(***************************************************************************)
EXTENDS Integers, Sequences, FiniteSets, TLC

VARIABLES
  predictor,  \* the TPAQPredictor object (its fields, sparse arrays included)
  calls,      \* number of Update calls made so far
  ones,       \* number of 1 bits fed so far
  bit,        \* the argument of the last Update call
  sse,        \* the value apm.get returned in the last Update call
  codec,      \* the codec object (kind, configuration, dictionary)
  block,      \* the block B handed to Forward
  encoded,    \* the destination buffer of Forward
  decoded,    \* the destination buffer of Inverse
  loc,        \* the local variables of the running Forward or Inverse call
  pc,         \* the position of the running call
  ret         \* what the finished calls returned

tpaqVars == <<predictor, calls, ones, bit, sse>>
codecVars == <<codec, block, encoded, decoded, loc, pc, ret>>
vars == <<predictor, calls, ones, bit, sse, codec, block, encoded, decoded, loc, pc, ret>>

\* Update is called at most MaxBits times.
MaxBits == 32
\* At most MaxOnes of the bits fed are 1.
MaxOnes == 1

(***************************************************************************)
(* 32-bit two's complement arithmetic.                                     *)
(***************************************************************************)
\* uint16(v >> 16) and uint16(v) of an int32 v
Hi16(v) == (v \div 65536) % 65536
Lo16(v) == v % 65536
\* the int32 whose halves are hi and lo
Int32(hi, lo) == (IF hi >= 32768 THEN hi - 65536 ELSE hi) * 65536 + lo

RECURSIVE Xor16(_, _)
Xor16(a, b) ==
  IF a = 0 THEN b
  ELSE IF b = 0 THEN a
  ELSE ((a + b) % 2) + 2 * Xor16(a \div 2, b \div 2)

RECURSIVE And16(_, _)
And16(a, b) ==
  IF a = 0 \/ b = 0 THEN 0
  ELSE ((a % 2) * (b % 2)) + 2 * And16(a \div 2, b \div 2)

\* v ^ w and v & w on int32
Xor32(v, w) == Int32(Xor16(Hi16(v), Hi16(w)), Xor16(Lo16(v), Lo16(w)))
And32(v, w) == Int32(And16(Hi16(v), Hi16(w)), And16(Lo16(v), Lo16(w)))

\* bits 0..15 and bits 16..31 of the product of two 16-bit values
MulLo16(a, b) == (a * (b % 256) + ((a * (b \div 256)) % 256) * 256) % 65536
MulHi16(a, b) ==
  ((a * (b % 256) + ((a * (b \div 256)) % 256) * 256) \div 65536
     + (a * (b \div 256)) \div 256) % 65536

\* v * w and v + w on int32, wrapping
Mul32(v, w) ==
  Int32((MulHi16(Lo16(v), Lo16(w)) + MulLo16(Hi16(v), Lo16(w))
           + MulLo16(Lo16(v), Hi16(w))) % 65536,
        MulLo16(Lo16(v), Lo16(w)))
Add32(v, w) ==
  Int32((Hi16(v) + Hi16(w) + (Lo16(v) + Lo16(w)) \div 65536) % 65536,
        (Lo16(v) + Lo16(w)) % 65536)

\* the value at index i of a sparse array (absent cells hold the zero value z)
At(arr, i, z) == IF i \in DOMAIN arr THEN arr[i] ELSE z
\* the sparse array arr with cell i set to v
Put(arr, i, v) == [j \in DOMAIN arr \cup {i} |-> IF j = i THEN v ELSE arr[j]]

(***************************************************************************)
(* TPAQ predictor: constants and tables.                                   *)
(***************************************************************************)
TPAQ_MAX_LENGTH == 88
TPAQ_BUFFER_SIZE == 67108864
TPAQ_HASH_SIZE == 16777216
TPAQ_MASK_BUFFER == TPAQ_BUFFER_SIZE - 1
TPAQ_MASK_HASH == TPAQ_HASH_SIZE - 1
TPAQ_MASK_80808080 == -2139062144
TPAQ_MASK_F0F0F0F0 == -252645136
TPAQ_HASH == 200002979
TPAQ_BEGIN_LEARN_RATE == 60 * 128
TPAQ_END_LEARN_RATE == 14 * 128

TPAQ_STATE_TABLE ==
  << <<
    1, 3, 143, 4, 5, 6, 7, 8, 9, 10, 11, 12, 13, 14, 15, 16,
    17, 18, 19, 20, 21, 22, 23, 24, 25, 26, 27, 28, 29, 30, 31, 32,
    33, 34, 35, 36, 37, 38, 39, 40, 41, 42, 43, 44, 45, 46, 47, 48,
    49, 50, 51, 52, 47, 54, 55, 56, 57, 58, 59, 60, 61, 62, 63, 64,
    65, 66, 67, 68, 69, 6, 71, 71, 71, 61, 75, 56, 77, 78, 77, 80,
    81, 82, 83, 84, 85, 86, 87, 88, 77, 90, 91, 92, 80, 94, 95, 96,
    97, 98, 99, 90, 101, 94, 103, 101, 102, 104, 107, 104, 105, 108, 111, 112,
    113, 114, 115, 116, 92, 118, 94, 103, 119, 122, 123, 94, 113, 126, 113, 128,
    129, 114, 131, 132, 112, 134, 111, 134, 110, 134, 134, 128, 128, 142, 143, 115,
    113, 142, 128, 148, 149, 79, 148, 142, 148, 150, 155, 149, 157, 149, 159, 149,
    131, 101, 98, 115, 114, 91, 79, 58, 1, 170, 129, 128, 110, 174, 128, 176,
    129, 174, 179, 174, 176, 141, 157, 179, 185, 157, 187, 188, 168, 151, 191, 192,
    188, 187, 172, 175, 170, 152, 185, 170, 176, 170, 203, 148, 185, 203, 185, 192,
    209, 188, 211, 192, 213, 214, 188, 216, 168, 84, 54, 54, 221, 54, 55, 85,
    69, 63, 56, 86, 58, 230, 231, 57, 229, 56, 224, 54, 54, 66, 58, 54,
    61, 57, 222, 78, 85, 82, 0, 0, 0, 0, 0, 0, 0, 0, 0, 0 >>,
     <<
    2, 163, 169, 163, 165, 89, 245, 217, 245, 245, 233, 244, 227, 74, 221, 221,
    218, 226, 243, 218, 238, 242, 74, 238, 241, 240, 239, 224, 225, 221, 232, 72,
    224, 228, 223, 225, 238, 73, 167, 76, 237, 234, 231, 72, 31, 63, 225, 237,
    236, 235, 53, 234, 53, 234, 229, 219, 229, 233, 232, 228, 226, 72, 74, 222,
    75, 220, 167, 57, 218, 70, 168, 72, 73, 74, 217, 76, 167, 79, 79, 166,
    162, 162, 162, 162, 165, 89, 89, 165, 89, 162, 93, 93, 93, 161, 100, 93,
    93, 93, 93, 93, 161, 102, 120, 104, 105, 106, 108, 106, 109, 110, 160, 134,
    108, 108, 126, 117, 117, 121, 119, 120, 107, 124, 117, 117, 125, 127, 124, 139,
    130, 124, 133, 109, 110, 135, 110, 136, 137, 138, 127, 140, 141, 145, 144, 124,
    125, 146, 147, 151, 125, 150, 127, 152, 153, 154, 156, 139, 158, 139, 156, 139,
    130, 117, 163, 164, 141, 163, 147, 2, 2, 199, 171, 172, 173, 177, 175, 171,
    171, 178, 180, 172, 181, 182, 183, 184, 186, 178, 189, 181, 181, 190, 193, 182,
    182, 194, 195, 196, 197, 198, 169, 200, 201, 202, 204, 180, 205, 206, 207, 208,
    210, 194, 212, 184, 215, 193, 184, 208, 193, 163, 219, 168, 94, 217, 223, 224,
    225, 76, 227, 217, 229, 219, 79, 86, 165, 217, 214, 225, 216, 216, 234, 75,
    214, 237, 74, 74, 163, 217, 0, 0, 0, 0, 0, 0, 0, 0, 0, 0 >> >>

TPAQ_STATE_MAP0 ==
  <<
    -119, -120, 169, -476, -484, -386, -737, -881, -874, -712, -848, -679, -559, -794, -1212, -782,
    -1205, -1205, -613, -753, -1169, -1169, -1169, -743, -1155, -732, -720, -1131, -1131, -1131, -1131, -1131,
    -1131, -1131, -1131, -1131, -540, -1108, -1108, -1108, -1108, -1108, -1108, -1108, -1108, -1108, -1108, -2047,
    -2047, -2047, -2047, -2047, -2047, -782, -569, -389, -640, -720, -568, -432, -379, -640, -459, -590,
    -1003, -569, -981, -981, -981, -609, 416, -1648, -245, -416, -152, -152, 416, -1017, -1017, -179,
    -424, -446, -461, -508, -473, -492, -501, -520, -528, -54, -395, -405, -404, -94, -232, -274,
    -288, -319, -354, -379, -105, -141, -63, -113, -18, -39, -94, 52, 103, 167, 222, 130,
    -78, -135, -253, -321, -343, 102, -165, 157, -229, 155, -108, -188, 262, 283, 56, 447,
    6, -92, 242, 172, 38, 304, 141, 285, 285, 320, 319, 462, 497, 447, -56, -46,
    374, 485, 510, 479, -71, 198, 475, 549, 559, 584, 586, -196, 712, -185, 673, -161,
    237, -63, 48, 127, 248, -34, -18, 416, -99, 189, -50, 39, 337, 263, 660, 153,
    569, 832, 220, 1, 318, 246, 660, 660, 732, 416, 732, 1, -660, 246, 660, 1,
    -416, 732, 262, 832, 369, 781, 781, 324, 1104, 398, 626, -416, 609, 1018, 1018, 1018,
    1648, 732, 1856, 1, 1856, 416, -569, 1984, -732, -164, 416, 153, -416, -569, -416, 1,
    -660, 1, -660, 153, 152, -832, -832, -832, -569, 0, -95, -660, 1, 569, 153, 416,
    -416, 1, 1, -569, 1, -318, 1, 1, 1, 1, 1, 1, 1, 1, 1, 1 >>

TPAQ_STATE_MAP1 ==
  <<
    -10, -436, 401, -521, -623, -689, -736, -812, -812, -900, -865, -891, -1006, -965, -981, -916,
    -946, -976, -1072, -1014, -1058, -1090, -1044, -1030, -1044, -1104, -1009, -1418, -1131, -1131, -1269, -1332,
    -1191, -1169, -1108, -1378, -1367, -1126, -1297, -1085, -1355, -1344, -1169, -1269, -1440, -1262, -1332, -2047,
    -2047, -1984, -2047, -2047, -2047, -225, -402, -556, -502, -746, -609, -647, -625, -718, -700, -805,
    -748, -935, -838, -1053, -787, -806, -269, -1006, -278, -212, -41, -399, 137, -984, -998, -219,
    -455, -524, -556, -564, -577, -592, -610, -690, -650, -140, -396, -471, -450, -168, -215, -301,
    -325, -364, -315, -401, -96, -174, -102, -146, -61, -9, 54, 81, 116, 140, 192, 115,
    -41, -93, -183, -277, -365, 104, -134, 37, -80, 181, -111, -184, 194, 317, 63, 394,
    105, -92, 299, 166, -17, 333, 131, 386, 403, 450, 499, 480, 493, 504, 89, -119,
    333, 558, 568, 501, -7, -151, 203, 557, 595, 603, 650, 104, 960, 204, 933, 239,
    247, -12, -105, 94, 222, -139, 40, 168, -203, 566, -53, 243, 344, 542, 42, 208,
    14, 474, 529, 82, 513, 504, 570, 616, 644, 92, 669, 91, -179, 677, 720, 157,
    -10, 687, 672, 750, 686, 830, 787, 683, 723, 780, 783, 9, 842, 816, 885, 901,
    1368, 188, 1356, 178, 1419, 173, -22, 1256, 240, 167, 1, -31, -165, 70, -493, -45,
    -354, -25, -142, 98, -17, -158, -355, -448, -142, -67, -76, -310, -324, -225, -96, 0,
    46, -72, 0, -439, 14, -55, 1, 1, 1, 1, 1, 1, 1, 1, 1, 1 >>

TPAQ_STATE_MAP2 ==
  <<
    -32, -521, 485, -627, -724, -752, -815, -886, -1017, -962, -1022, -984, -1099, -1062, -1090, -1062,
    -1108, -1085, -1248, -1126, -1233, -1104, -1233, -1212, -1285, -1184, -1162, -1309, -1240, -1309, -1219, -1390,
    -1332, -1320, -1262, -1320, -1332, -1320, -1344, -1482, -1367, -1355, -1504, -1390, -1482, -1482, -1525, -2047,
    -2047, -1984, -2047, -2047, -1984, -251, -507, -480, -524, -596, -608, -658, -713, -812, -700, -653,
    -820, -820, -752, -831, -957, -690, -402, -689, -189, -28, -13, -312, 119, -930, -973, -212,
    -459, -523, -513, -584, -545, -593, -628, -631, -688, -33, -437, -414, -458, -167, -301, -308,
    -407, -289, -389, -332, -55, -233, -115, -144, -100, -20, 106, 59, 130, 200, 237, 36,
    -114, -131, -232, -296, -371, 140, -168, 0, -16, 199, -125, -182, 238, 310, 29, 423,
    41, -176, 317, 96, -14, 377, 123, 446, 458, 510, 496, 463, 515, 471, -11, -182,
    268, 527, 569, 553, -58, -146, 168, 580, 602, 604, 651, 87, 990, 95, 977, 185,
    315, 82, -25, 140, 286, -57, 85, 14, -210, 630, -88, 290, 328, 422, -20, 271,
    -23, 478, 548, 64, 480, 540, 591, 601, 583, 26, 696, 117, -201, 740, 717, 213,
    -22, 566, 599, 716, 709, 764, 740, 707, 790, 871, 925, 3, 969, 990, 990, 1023,
    1333, 154, 1440, 89, 1368, 125, -78, 1403, 128, 100, -88, -20, -250, -140, -164, -14,
    -175, -6, -13, -23, -251, -195, -422, -419, -107, -89, -24, -69, -244, -51, -27, -250,
    0, 1, -145, 74, 12, 11, 1, 1, 1, 1, 1, 1, 1, 1, 1, 1 >>

TPAQ_STATE_MAP3 ==
  <<
    -25, -605, 564, -746, -874, -905, -949, -1044, -1126, -1049, -1099, -1140, -1248, -1122, -1184, -1240,
    -1198, -1285, -1262, -1332, -1418, -1402, -1390, -1285, -1418, -1418, -1418, -1367, -1552, -1440, -1367, -1584,
    -1344, -1616, -1344, -1390, -1418, -1461, -1616, -1770, -1648, -1856, -1770, -1584, -1648, -2047, -1685, -2047,
    -2047, -1856, -2047, -2047, -1770, -400, -584, -523, -580, -604, -625, -587, -739, -626, -774, -857,
    -737, -839, -656, -888, -984, -624, -26, -745, -211, -103, -73, -328, 142, -1072, -1062, -231,
    -458, -494, -518, -579, -550, -541, -653, -621, -703, -53, -382, -444, -417, -199, -288, -367,
    -273, -450, -268, -477, -101, -157, -123, -156, -107, -9, 71, 64, 133, 174, 240, 25,
    -138, -127, -233, -272, -383, 105, -144, 85, -115, 188, -112, -245, 236, 305, 26, 395,
    -3, -164, 321, 57, -68, 346, 86, 448, 482, 541, 515, 461, 503, 454, -22, -191,
    262, 485, 557, 550, -53, -152, 213, 565, 570, 649, 640, 122, 931, 92, 990, 172,
    317, 54, -12, 127, 253, 8, 108, 104, -144, 733, -64, 265, 370, 485, 152, 366,
    -12, 507, 473, 146, 462, 579, 549, 659, 724, 94, 679, 72, -152, 690, 698, 378,
    -11, 592, 652, 764, 730, 851, 909, 837, 896, 928, 1050, 74, 1095, 1077, 1206, 1059,
    1403, 254, 1552, 181, 1552, 238, -31, 1526, 199, 47, -214, 32, -219, -153, -323, -198,
    -319, -108, -107, -90, -177, -210, -184, -455, -216, -19, -107, -219, -22, -232, -19, -198,
    -198, -113, -398, 0, -49, -29, 1, 1, 1, 1, 1, 1, 1, 1, 1, 1 >>

TPAQ_STATE_MAP4 ==
  <<
    -34, -648, 644, -793, -889, -981, -1053, -1108, -1108, -1117, -1176, -1198, -1205, -1140, -1355, -1332,
    -1418, -1440, -1402, -1355, -1367, -1418, -1402, -1525, -1504, -1402, -1390, -1378, -1525, -1440, -1770, -1552,
    -1378, -1390, -1616, -1648, -1482, -1616, -1390, -1728, -1770, -2047, -1685, -1616, -1648, -1685, -1584, -2047,
    -1856, -1856, -2047, -2047, -2047, -92, -481, -583, -623, -602, -691, -803, -815, -584, -728, -743,
    -796, -734, -884, -728, -1616, -747, -416, -510, -265, 1, -44, -409, 141, -1014, -1094, -201,
    -490, -533, -537, -605, -536, -564, -676, -620, -688, -43, -439, -361, -455, -178, -309, -315,
    -396, -273, -367, -341, -92, -202, -138, -105, -117, -4, 107, 36, 90, 169, 222, -14,
    -92, -125, -219, -268, -344, 70, -137, -49, 4, 171, -72, -224, 210, 319, 15, 386,
    -2, -195, 298, 53, -31, 339, 95, 383, 499, 557, 491, 457, 468, 421, -53, -168,
    267, 485, 573, 508, -65, -109, 115, 568, 576, 619, 685, 179, 878, 131, 851, 175,
    286, 19, -21, 113, 245, -54, 101, 210, -121, 766, -47, 282, 441, 483, 129, 303,
    16, 557, 460, 114, 492, 596, 580, 557, 605, 133, 643, 154, -115, 668, 683, 332,
    -44, 685, 735, 765, 757, 889, 890, 922, 917, 1012, 1170, 116, 1104, 1192, 1199, 1213,
    1368, 254, 1462, 307, 1616, 359, 50, 1368, 237, 52, -112, -47, -416, -255, -101, 55,
    -177, -166, -73, -132, -56, -132, -237, -495, -152, -43, 69, 46, -121, -191, -102, 170,
    -137, -45, -364, -57, -212, 7, 1, 1, 1, 1, 1, 1, 1, 1, 1, 1 >>

TPAQ_STATE_MAP5 ==
  <<
    -30, -722, 684, -930, -1006, -1155, -1191, -1212, -1332, -1149, -1276, -1297, -1320, -1285, -1344, -1648,
    -1402, -1482, -1552, -1255, -1344, -1504, -1728, -1525, -1418, -1728, -1856, -1584, -1390, -1552, -1552, -1984,
    -1482, -1525, -1856, -2047, -1525, -1770, -1648, -1770, -1482, -1482, -1482, -1584, -2047, -2047, -1552, -2047,
    -2047, -2047, -2047, -1984, -2047, 0, -376, -502, -568, -710, -761, -860, -838, -750, -1058, -897,
    -787, -865, -646, -844, -979, -1000, -416, -564, -832, -416, -64, -555, 304, -954, -1081, -219,
    -448, -543, -510, -550, -544, -564, -650, -595, -747, -61, -460, -404, -430, -183, -287, -315,
    -366, -311, -347, -328, -109, -240, -151, -117, -156, -32, 64, 19, 78, 116, 223, 6,
    -195, -125, -204, -267, -346, 63, -125, -92, -22, 186, -128, -169, 182, 290, -14, 384,
    -27, -134, 303, 0, -5, 328, 96, 351, 483, 459, 529, 423, 447, 390, -104, -165,
    214, 448, 588, 550, -127, -146, 31, 552, 563, 620, 718, -50, 832, 14, 851, 93,
    281, 60, -5, 121, 257, -16, 103, 138, -184, 842, -21, 319, 386, 411, 107, 258,
    66, 475, 542, 178, 501, 506, 568, 685, 640, 78, 694, 122, -96, 634, 826, 165,
    220, 794, 736, 960, 746, 823, 833, 939, 1045, 1004, 1248, 22, 1118, 1077, 1213, 1127,
    1552, 241, 1440, 282, 1483, 315, -102, 1391, 352, 124, -188, 19, 1, -268, -782, 0,
    -322, 116, 46, -129, 95, -102, -238, -459, -262, -100, 122, -152, -455, -269, -238, 0,
    -152, -416, -369, -219, -175, -41, 1, 1, 1, 1, 1, 1, 1, 1, 1, 1 >>

TPAQ_STATE_MAP6 ==
  <<
    -11, -533, 477, -632, -731, -815, -808, -910, -940, -995, -1094, -1040, -946, -1044, -1198, -1099,
    -1104, -1090, -1162, -1122, -1145, -1205, -1248, -1269, -1255, -1285, -1140, -1219, -1269, -1285, -1269, -1367,
    -1344, -1390, -1482, -1332, -1378, -1461, -1332, -1461, -1525, -1584, -1418, -1504, -1648, -1648, -1648, -1856,
    -1856, -1616, -1984, -1525, -2047, -330, -456, -533, -524, -541, -577, -631, -715, -670, -710, -729,
    -743, -738, -759, -775, -850, -690, -193, -870, -102, 21, -45, -282, 96, -1000, -984, -177,
    -475, -506, -514, -582, -597, -602, -622, -633, -695, -22, -422, -381, -435, -107, -290, -327,
    -360, -316, -366, -374, -62, -212, -111, -162, -83, -8, 127, 52, 101, 193, 237, -16,
    -117, -150, -246, -275, -361, 122, -134, -21, 28, 220, -132, -215, 231, 330, 40, 406,
    -11, -196, 329, 68, -42, 391, 101, 396, 483, 519, 480, 464, 516, 484, -34, -200,
    269, 487, 525, 510, -79, -142, 150, 517, 555, 594, 718, 86, 861, 102, 840, 134,
    291, 74, 10, 166, 245, 16, 117, -21, -126, 652, -71, 291, 355, 491, 10, 251,
    -21, 527, 525, 43, 532, 531, 573, 631, 640, 31, 629, 87, -164, 680, 755, 145,
    14, 621, 647, 723, 748, 687, 821, 745, 794, 785, 859, 23, 887, 969, 996, 1007,
    1286, 104, 1321, 138, 1321, 169, -24, 1227, 123, 116, 13, 45, -198, -38, -214, -22,
    -241, 13, -161, -54, -108, -120, -345, -484, -119, -80, -58, -189, -253, -223, -106, -73,
    -57, -64, -268, -208, -4, 12, 1, 1, 1, 1, 1, 1, 1, 1, 1, 1 >>

(***************************************************************************)
(* Squash: the logistic table of the utility layer, which the predictor    *)
(* calls as kanzi.Squash.  Its values lie in 0..4095.                      *)
(***************************************************************************)
SquashTable ==
  << 1, 2, 3, 6, 10, 16, 27, 45, 73, 120, 194, 310, 488, 747, 1101, 1546, 2047,
     2549, 2994, 3348, 3607, 3785, 3901, 3975, 4022, 4050, 4068, 4079, 4085,
     4089, 4092, 4093, 4094 >>

Squash(d) ==
  IF d > 2047 THEN 4095
  ELSE IF d < -2047 THEN 0
  ELSE (SquashTable[(d \div 128) + 17] * (128 - (d % 128))
          + SquashTable[(d \div 128) + 18] * (d % 128) + 64) \div 128

\* The values apm.get may return: the ends of its range 0..4095 and the two
\* values around its centre.
ApmOut == {0, 2047, 2048, 4095}

(***************************************************************************)
(* TPAQ predictor: hashing.                                                *)
(***************************************************************************)
hashTPAQ(x, y) ==
  LET h == Xor32(Mul32(x, TPAQ_HASH), Mul32(y, TPAQ_HASH))
  IN  Xor32(Xor32(Xor32(Xor32(h \div 2, h \div 512), x \div 4), y \div 8), TPAQ_HASH)

addContext(ctxId, cx) ==
  LET c1 == Add32(Mul32(cx, 987654323), ctxId)
      c2 == Int32(Lo16(c1), Hi16(c1))
  IN  Add32(Mul32(c2, 123456791), ctxId)

(***************************************************************************)
(* TPAQMixer.  A mixer is a record; w and p hold w0..w7 and p0..p7.        *)
(***************************************************************************)
TPAQMixer_init ==
  [ pr |-> 2048, skew |-> 0,
    w |-> <<2048, 2048, 2048, 2048, 2048, 2048, 2048, 2048>>,
    p |-> <<0, 0, 0, 0, 0, 0, 0, 0>>,
    learnRate |-> TPAQ_BEGIN_LEARN_RATE ]

\* update where the learn rate loses 1 at every training step, with no floor.
TPAQMixer_update_NoFloor(m, y) ==
  LET err0 == (y * 4096) - m.pr
      err  == Mul32(err0, m.learnRate) \div 128
  IN  IF err0 = 0 THEN m
      ELSE [ m EXCEPT
               !.learnRate = Add32(@, -1),
               !.skew = Add32(@, err),
               !.w = [i \in 1..8 |-> Add32(m.w[i], Mul32(m.p[i], err) \div 32768)] ]

TPAQMixer_update(m, y) ==
  LET err0 == (y * 4096) - m.pr
      err  == Mul32(err0, m.learnRate) \div 128
  IN  IF err0 = 0 THEN m
      ELSE [ m EXCEPT
               !.learnRate = Add32(@, ((TPAQ_END_LEARN_RATE - @) \div 65536) \div 32768),
               !.skew = Add32(@, err),
               !.w = [i \in 1..8 |-> Add32(m.w[i], Mul32(m.p[i], err) \div 32768)] ]

TPAQMixer_get(m, p) ==
  LET dot == Add32(Add32(Add32(Add32(Add32(Add32(Add32(Add32(
               Mul32(m.w[1], p[1]), Mul32(m.w[2], p[2])), Mul32(m.w[3], p[3])),
               Mul32(m.w[4], p[4])), Mul32(m.w[5], p[5])), Mul32(m.w[6], p[6])),
               Mul32(m.w[7], p[7])), Mul32(m.w[8], p[8])), m.skew)
  IN  [m EXCEPT !.p = p, !.pr = Squash(Add32(dot, 65536) \div 131072)]

(***************************************************************************)
(* TPAQPredictor.  The object is a record with the fields of the struct;   *)
(* mixers, buffer, hashes and states are sparse arrays: a cell that was    *)
(* never written holds the value make() gave it.  mixer and cp[1..7] are   *)
(* the indices the pointers mixer and cp0..cp6 point at.                   *)
(***************************************************************************)
\* The argument of NewTPAQPredictor: a nil pointer, or a pointer to a map, of
\* which the model keeps the keys "blockSize" and "size" (with uint values).
\* The construction inputs of the predictor that is fed bits: no context map,
\* or a map with both keys.
Contexts ==
  { [isNil |-> TRUE, map |-> <<>>],
    [isNil |-> FALSE, map |-> [blockSize |-> 65536, size |-> 65536]] }

\* Lines 396 and 411: (*ctx)[key] is nil for a key the map does not hold, and
\* the type assertion .(uint) on it panics.
TPAQ_NewPanics(ctx) ==
  /\ ~ ctx.isNil
  /\ ~ ({"blockSize", "size"} \subseteq DOMAIN ctx.map)

\* The object built when the type assertions succeed.
NewTPAQPredictor(ctx) ==
  LET statesSize ==
        IF ctx.isNil THEN 268435456
        ELSE IF ctx.map.blockSize >= 64 * 1024 * 1024 THEN 536870912
        ELSE IF ctx.map.blockSize >= 16 * 1024 * 1024 THEN 268435456
        ELSE IF ctx.map.blockSize >= 1024 * 1024 THEN 134217728
        ELSE 67108864
      mixersSize ==
        IF ctx.isNil THEN 4096
        ELSE IF ctx.map.size >= 8 * 1024 * 1024 THEN 16384
        ELSE IF ctx.map.size >= 4 * 1024 * 1024 THEN 4096
        ELSE IF ctx.map.size >= 1024 * 1024 THEN 1024
        ELSE 512
  IN  [ pr |-> 2048, c0 |-> 1, c4 |-> 0, c8 |-> 0, bpos |-> 0, pos |-> 0,
        binCount |-> 0, matchLen |-> 0, matchPos |-> 0, hash |-> 0,
        statesMask |-> statesSize - 1, mixersMask |-> mixersSize - 1,
        mixers |-> <<>>, mixer |-> 0, buffer |-> <<>>, hashes |-> <<>>,
        states |-> <<>>, cp |-> <<0, 0, 0, 0, 0, 0, 0>>,
        ctx |-> <<0, 0, 0, 0, 0, 0, 0>> ]

Get(this) == this.pr

\* The loop of findMatch: the first r for which the bytes before pos and
\* before matchPos differ, or TPAQ_MAX_LENGTH + 1.
RECURSIVE findMatchLoop(_, _, _)
findMatchLoop(this, mp, r) ==
  IF r <= TPAQ_MAX_LENGTH
       /\ At(this.buffer, (this.pos - r) % TPAQ_BUFFER_SIZE, 0)
            = At(this.buffer, (mp - r) % TPAQ_BUFFER_SIZE, 0)
  THEN findMatchLoop(this, mp, r + 1)
  ELSE r

\* findMatch where a live match grows without a cap.
findMatch_NoCap(this) ==
  IF this.matchLen > 0
  THEN [this EXCEPT !.matchLen = @ + 1, !.matchPos = @ + 1]
  ELSE LET mp == At(this.hashes, this.hash, 0)
       IN  IF mp # 0 /\ this.pos - mp <= TPAQ_MASK_BUFFER
           THEN [ this EXCEPT !.matchPos = mp,
                              !.matchLen = findMatchLoop(this, mp, this.matchLen + 1) - 1 ]
           ELSE [this EXCEPT !.matchPos = mp]

findMatch(this) ==
  IF this.matchLen > 0
  THEN [ this EXCEPT !.matchLen = IF @ < TPAQ_MAX_LENGTH THEN @ + 1 ELSE @,
                     !.matchPos = @ + 1 ]
  ELSE LET mp == At(this.hashes, this.hash, 0)
       IN  IF mp # 0 /\ this.pos - mp <= TPAQ_MASK_BUFFER
           THEN [ this EXCEPT !.matchPos = mp,
                              !.matchLen = findMatchLoop(this, mp, this.matchLen + 1) - 1 ]
           ELSE [this EXCEPT !.matchPos = mp]

\* addMatchContextPred where a match that disagrees with c0 is kept alive.
addMatchContextPred_NoKill(this) ==
  LET b == At(this.buffer, this.matchPos % TPAQ_BUFFER_SIZE, 0)
      l == IF this.matchLen <= 24 THEN this.matchLen
           ELSE 24 + ((this.matchLen - 24) \div 8)
  IN  IF this.matchLen > 0 /\ this.c0 = (b + 256) \div (2 ^ (8 - this.bpos))
      THEN [ p |-> (IF (b \div (2 ^ (7 - this.bpos))) % 2 = 0 THEN -l ELSE l) * 64,
             this |-> this ]
      ELSE [p |-> 0, this |-> this]

\* The result is the prediction p and the object, whose matchLen the call may reset.
addMatchContextPred(this) ==
  LET b == At(this.buffer, this.matchPos % TPAQ_BUFFER_SIZE, 0)
      l == IF this.matchLen <= 24 THEN this.matchLen
           ELSE 24 + ((this.matchLen - 24) \div 8)
  IN  IF this.matchLen > 0
      THEN IF this.c0 = (b + 256) \div (2 ^ (8 - this.bpos))
           THEN [ p |-> (IF (b \div (2 ^ (7 - this.bpos))) % 2 = 0 THEN -l ELSE l) * 64,
                  this |-> this ]
           ELSE [p |-> 0, this |-> [this EXCEPT !.matchLen = 0]]
      ELSE [p |-> 0, this |-> this]

\* Update, lines 459-508: the byte c0 is complete.
UpdateByte(this) ==
  LET pos == this.pos + 1
      c8  == Mul32(this.c8, 256) + ((this.c4 \div 16777216) % 256)
      c4  == Mul32(this.c4, 256) + (this.c0 % 256)
      hash == Add32(Mul32(Mul32(this.hash, 43707), 16), c4) % TPAQ_HASH_SIZE
      binCount == this.binCount + ((c4 \div 128) % 2)
      text == binCount < pos \div 4
      h1 == IF text /\ And32(c4, TPAQ_MASK_80808080) = 0 THEN c4 ELSE c4 \div 65536
      h2 == IF text /\ And32(c8, TPAQ_MASK_80808080) = 0 THEN c8 ELSE c8 \div 65536
      h3 == IF text THEN Xor32(c4, c8 % 65536) ELSE Xor32(c4, c4 % 65536)
      t1 == [ this EXCEPT
                !.buffer = Put(@, this.pos % TPAQ_BUFFER_SIZE, this.c0 % 256),
                !.pos = pos, !.c8 = c8, !.c4 = c4, !.hash = hash,
                !.c0 = 1, !.bpos = 0, !.binCount = binCount,
                !.mixer = c4 % (this.mixersMask + 1),
                !.ctx = << addContext(0, h3),
                           addContext(1, hashTPAQ(TPAQ_HASH, Mul32(c4, 16777216))),
                           addContext(2, hashTPAQ(TPAQ_HASH, Mul32(c4, 65536))),
                           addContext(3, hashTPAQ(TPAQ_HASH, Mul32(c4, 256))),
                           addContext(4, hashTPAQ(TPAQ_HASH, And32(c4, TPAQ_MASK_F0F0F0F0))),
                           addContext(5, hashTPAQ(TPAQ_HASH, c4)),
                           addContext(6, hashTPAQ(h1, h2)) >> ]
      t2 == findMatch(t1)
  IN  [t2 EXCEPT !.hashes = Put(@, hash, pos)]

\* The state map of context k (k in 1..7 for TPAQ_STATE_MAP0..6).
StateMap(k) ==
  << TPAQ_STATE_MAP0, TPAQ_STATE_MAP1, TPAQ_STATE_MAP2, TPAQ_STATE_MAP3,
     TPAQ_STATE_MAP4, TPAQ_STATE_MAP5, TPAQ_STATE_MAP6 >>[k]

\* UpdateStates where a slot is incremented instead of taking its next state.
RECURSIVE UpdateStates_Increment(_, _, _, _)
UpdateStates_Increment(this, y, k, acc) ==
  IF k > 7 THEN acc
  ELSE LET st  == Put(acc.states, acc.cp[k], At(acc.states, acc.cp[k], 0) + 64)
           idx == Add32(this.ctx[k], this.c0) % (this.statesMask + 1)
       IN  UpdateStates_Increment(this, y, k + 1,
             [ states |-> st, cp |-> [acc.cp EXCEPT ![k] = idx],
               p |-> Append(acc.p, StateMap(k)[(At(st, idx, 0) % 256) + 1]) ])

\* Update, lines 511-534, for contexts k..7 in this order: the slot cp[k] points
\* at takes its next state, cp[k] moves to the slot of the new c0, and the
\* prediction of context k is read there.  acc holds states, cp and p0..p(k-2).
RECURSIVE UpdateStates(_, _, _, _)
UpdateStates(this, y, k, acc) ==
  IF k > 7 THEN acc
  ELSE LET st  == Put(acc.states, acc.cp[k],
                      TPAQ_STATE_TABLE[y + 1][At(acc.states, acc.cp[k], 0) + 1])
           idx == Add32(this.ctx[k], this.c0) % (this.statesMask + 1)
       IN  UpdateStates(this, y, k + 1,
             [ states |-> st, cp |-> [acc.cp EXCEPT ![k] = idx],
               p |-> Append(acc.p, StateMap(k)[At(st, idx, 0) + 1]) ])

\* Bias with the correction added to every p.
Bias_Always(p) == p + 1

\* Bias with an arithmetic shift: the sign of p - 2048 is added.
Bias_Signed(p) == p + (IF p < 2048 THEN -1 ELSE 0)

\* Bias with the correction on the other half of the range.
Bias_UpperHalf(p) == p + (IF p >= 2048 THEN 1 ELSE 0)

\* Bias with no correction at all.
Bias_None(p) == p

\* pr for the value p that apm.get returned, lines 543-544.
Bias(p) == p + (Hi16(Add32(p, -2048)) \div 32768)

\* UpdateMix where the byte is taken to be complete one bit late.
UpdateMix_LateByte(this, y) ==
  LET t1 == [ this EXCEPT
                !.mixers = Put(@, this.mixer,
                               TPAQMixer_update(At(@, this.mixer, TPAQMixer_init), y)),
                !.bpos = @ + 1,
                !.c0 = (2 * @) + y ]
      t2 == IF t1.c0 > 511 THEN UpdateByte(t1) ELSE t1
      s  == UpdateStates(t2, y, 1, [states |-> t2.states, cp |-> t2.cp, p |-> <<>>])
      m  == addMatchContextPred([t2 EXCEPT !.states = s.states, !.cp = s.cp])
      t3 == m.this
      mx == TPAQMixer_get(At(t3.mixers, t3.mixer, TPAQMixer_init), Append(s.p, m.p))
  IN  [t3 EXCEPT !.mixers = Put(@, t3.mixer, mx)]

\* Update where the mixer is selected before it is trained: at a byte boundary
\* the bit trains the mixer of the new byte context.
UpdateMix_SwitchFirst(this, y) ==
  LET t1 == [ this EXCEPT !.bpos = @ + 1, !.c0 = (2 * @) + y ]
      t2 == IF t1.c0 > 255 THEN UpdateByte(t1) ELSE t1
      tm == [ t2 EXCEPT
                !.mixers = Put(@, t2.mixer,
                               TPAQMixer_update(At(@, t2.mixer, TPAQMixer_init), y)) ]
      s  == UpdateStates(tm, y, 1, [states |-> tm.states, cp |-> tm.cp, p |-> <<>>])
      m  == addMatchContextPred([tm EXCEPT !.states = s.states, !.cp = s.cp])
      t3 == m.this
      mx == TPAQMixer_get(At(t3.mixers, t3.mixer, TPAQMixer_init), Append(s.p, m.p))
  IN  [t3 EXCEPT !.mixers = Put(@, t3.mixer, mx)]

\* Update(bit) up to the call of apm.get, lines 453-541.
UpdateMix(this, y) ==
  LET t1 == [ this EXCEPT
                !.mixers = Put(@, this.mixer,
                               TPAQMixer_update(At(@, this.mixer, TPAQMixer_init), y)),
                !.bpos = @ + 1,
                !.c0 = (2 * @) + y ]
      t2 == IF t1.c0 > 255 THEN UpdateByte(t1) ELSE t1
      s  == UpdateStates(t2, y, 1, [states |-> t2.states, cp |-> t2.cp, p |-> <<>>])
      m  == addMatchContextPred([t2 EXCEPT !.states = s.states, !.cp = s.cp])
      t3 == m.this
      mx == TPAQMixer_get(At(t3.mixers, t3.mixer, TPAQMixer_init), Append(s.p, m.p))
  IN  [t3 EXCEPT !.mixers = Put(@, t3.mixer, mx)]

(***************************************************************************)
(* The predictor driven by a coder: one Update per bit.                    *)
(***************************************************************************)
\* No codec is in use.
NoCodec ==
  /\ codec = <<>>
  /\ block = <<>>
  /\ encoded = <<>>
  /\ decoded = <<>>
  /\ loc = <<>>
  /\ pc = "none"
  /\ ret = <<>>

Init ==
  /\ predictor \in {NewTPAQPredictor(c) : c \in Contexts}
  /\ calls = 0
  /\ ones = 0
  /\ bit = 0
  /\ sse = 2048
  /\ NoCodec

\* Update(bit): apm.get returns a, and pr is set from it.
DoUpdate ==
  \E y \in {0, 1} :
    /\ calls < MaxBits
    /\ ones + y <= MaxOnes
    /\ \E u \in {UpdateMix(predictor, y)}, a \in ApmOut :
         /\ predictor' = [u EXCEPT !.pr = Bias(a)]
         /\ sse' = a
    /\ calls' = calls + 1
    /\ ones' = ones + y
    /\ bit' = y
    /\ UNCHANGED codecVars

Next == DoUpdate

Spec == Init /\ [][Next]_vars

(***************************************************************************)
(* Properties of the predictor.                                            *)
(***************************************************************************)

\* C1: after every Update, whatever bits were fed, Get returns a value in
\* [0, 4095], given that squash and apm.get return values in [0, 4095].
C1_GetInRange == calls > 0 => Get(predictor) \in 0..4095

C1_Witness == calls > 0 /\ sse = 4095 /\ Get(predictor) = 4095

\* floor(log2(n)) for n >= 1.
RECURSIVE Log2(_)
Log2(n) == IF n <= 1 THEN 0 ELSE 1 + Log2(n \div 2)

\* C6: after k Updates on a fresh predictor pos * 8 + bpos = k, c0 is in
\* 1..255 and holds bpos bits below its leading 1; after every eighth Update
\* bpos is 0 and c0 is 1.
C6_BitAccounting ==
  /\ (predictor.pos * 8) + predictor.bpos = calls
  /\ predictor.c0 \in 1..255
  /\ Log2(predictor.c0) = predictor.bpos
  /\ (calls % 8 = 0 => predictor.bpos = 0 /\ predictor.c0 = 1)

C6_Witness ==
  /\ calls = 16 /\ predictor.pos = 2 /\ predictor.bpos = 0 /\ predictor.c0 = 1
  /\ ones > 0

\* The states the state table reaches from state 0.
RECURSIVE StatesFrom(_)
StatesFrom(S) ==
  LET N == S \cup {TPAQ_STATE_TABLE[1][s + 1] : s \in S}
             \cup {TPAQ_STATE_TABLE[2][s + 1] : s \in S}
  IN  IF N = S THEN S ELSE StatesFrom(N)

ReachableStates == StatesFrom({0})

\* C7: starting from an all-zero state store, after any Updates every byte of
\* the store, and so every byte read through cp0..cp6, is in [0, 252]; the
\* states TPAQ_STATE_TABLE reaches from 0 are in [0, 252].
C7_StateBytesInRange ==
  /\ \A i \in DOMAIN predictor.states : predictor.states[i] \in 0..252
  /\ \A k \in 1..7 : At(predictor.states, predictor.cp[k], 0) \in 0..252
  /\ ReachableStates \subseteq 0..252

C7_Witness ==
  /\ calls >= 16
  /\ \E i \in DOMAIN predictor.states : predictor.states[i] >= 7
  /\ \E k \in 1..7 : At(predictor.states, predictor.cp[k], 0) > 0

\* C8: a match is never extended across a byte that differed from the byte
\* it predicted: while a match is alive (matchLen > 0), the last completed
\* byte equals the byte of the buffer before matchPos.
C8_MatchFollowsBuffer ==
  (predictor.matchLen > 0 /\ predictor.pos > 0) =>
    At(predictor.buffer, (predictor.pos - 1) % TPAQ_BUFFER_SIZE, 0)
      = At(predictor.buffer, (predictor.matchPos - 1) % TPAQ_BUFFER_SIZE, 0)

Nil == "nil"
NotReturned == [read |-> 0, written |-> 0, err |-> "not returned"]
Returned(r, w, e) == [read |-> r, written |-> w, err |-> e]

\* No predictor is in use.
NoPredictor ==
  /\ predictor = <<>>
  /\ calls = 0
  /\ ones = 0
  /\ bit = 0
  /\ sse = 0

\* s[i] for the index i of the code.
Byte(s, i) == s[i + 1]
\* n copies of v.
Copies(v, n) == [i \in 1..n |-> v]

(***************************************************************************)
(* RLT                                                                     *)
(***************************************************************************)
RLT_RUN_LEN_ENCODE1 == 224
RLT_RUN_LEN_ENCODE2 == (255 - RLT_RUN_LEN_ENCODE1) * 256
RLT_RUN_THRESHOLD == 3
RLT_MAX_RUN == 65535 + RLT_RUN_LEN_ENCODE2 + RLT_RUN_THRESHOLD - 1
RLT_MAX_RUN4 == RLT_MAX_RUN - 4

RLT_MaxEncodedLen(srcLen) == IF srcLen <= 512 THEN srcLen + 32 ELSE srcLen

\* Forward, lines 78-96: the first symbol of frequency 0 if there is one, else
\* the first symbol of the least frequency.
RLT_Escape(src) ==
  LET freqs == [v \in 0..255 |-> Cardinality({i \in 1..Len(src) : src[i] = v})]
  IN  CHOOSE m \in 0..255 :
        /\ \A v \in 0..255 : freqs[m] <= freqs[v]
        /\ \A v \in 0..(m - 1) : freqs[v] > freqs[m]

\* A run written as the escape symbol and the length only, without the byte
\* of the run before them.
emitRunLength_NoValue(len, run0, escape, val) ==
  [bytes |-> <<escape, (run0 - RLT_RUN_THRESHOLD) % 256>>, n |-> 2, err |-> Nil]

\* emitRunLength on a slice of len bytes: the bytes written, the count
\* returned and the error.
emitRunLength(len, run0, escape, val) ==
  LET head == IF val = escape THEN <<val, 0, escape>> ELSE <<val, escape>>
      run  == run0 - RLT_RUN_THRESHOLD
      long == run >= RLT_RUN_LEN_ENCODE1
      mid  == run >= RLT_RUN_LEN_ENCODE1 /\ run < RLT_RUN_LEN_ENCODE2
      r1   == run - RLT_RUN_LEN_ENCODE1
      r2   == run - RLT_RUN_LEN_ENCODE2
      body == IF ~long THEN <<run % 256>>
              ELSE IF mid THEN <<(RLT_RUN_LEN_ENCODE1 + (r1 \div 256)) % 256, r1 % 256>>
              ELSE <<255, (r2 \div 256) % 256, r2 % 256>>
  IN  IF Len(head) > len THEN [bytes |-> <<>>, n |-> 0, err |-> "panic"]
      ELSE IF mid /\ Len(head) >= len - 2
           THEN [bytes |-> head, n |-> Len(head), err |-> "Output buffer too small"]
      ELSE IF long /\ ~mid /\ Len(head) >= len - 3
           THEN [bytes |-> head, n |-> Len(head), err |-> "Output buffer too small"]
      ELSE IF Len(head) + Len(body) > len THEN [bytes |-> <<>>, n |-> 0, err |-> "panic"]
      ELSE [bytes |-> head \o body, n |-> Len(head) + Len(body), err |-> Nil]

\* Forward, lines 137-175 and 184-209: what is written for the run of prev, and
\* the error.  In the main loop (inLoop) a buffer too small is an error; after
\* it the run is skipped.
RLT_EmitRun(l, dstEnd, inLoop) ==
  IF l.run > RLT_RUN_THRESHOLD
  THEN LET e == emitRunLength(dstEnd - l.dstIdx, l.run, l.escape, l.prev)
       IN  [bytes |-> IF e.err = Nil THEN e.bytes ELSE <<>>, err |-> e.err]
  ELSE IF l.prev # l.escape
  THEN IF l.dstIdx + l.run >= dstEnd
       THEN [bytes |-> <<>>, err |-> IF inLoop THEN "Output buffer is too small" ELSE Nil]
       ELSE [bytes |-> Copies(l.prev, l.run), err |-> Nil]
  ELSE IF l.dstIdx + (2 * l.run) >= dstEnd
       THEN [bytes |-> <<>>, err |-> IF inLoop THEN "Output buffer is too small" ELSE Nil]
       ELSE [bytes |-> [i \in 1..(2 * l.run) |-> IF i % 2 = 1 THEN l.escape ELSE 0],
             err |-> Nil]

\* The blocks given to RLT.Forward: up to two runs followed by a tail, and
\* blocks in which every byte value occurs.
RLT_MaxTail == 2
RLT_RunLens == {1, 4, 5, 230}
RLT_Tails == UNION {[1..n -> {0, 1}] : n \in 0..RLT_MaxTail}
\* The 256 byte values in increasing order from k, wrapping around.
RLT_AllBytes(k) == [i \in 1..256 |-> (k + i - 1) % 256]
\* The block "aaaaaaaabbbbbbbbcccccccc".
RLT_Example == Copies(97, 8) \o Copies(98, 8) \o Copies(99, 8)
\* A first byte, a run of 0x00 at each end of the size classes of the run
\* length, then bytes that occur once.
RLT_LongRuns ==
  { <<9>> \o Copies(0, n) \o <<1, 2, 3, 4, 5, 6>> : n \in {226, 227, 7938, 7939} }
RLT_Blocks ==
  {<<>>, RLT_Example}
  \cup RLT_LongRuns
  \cup { Copies(a, n1) \o Copies(b, n2) \o t :
           a \in {0, 1}, b \in {1, 2}, n1 \in RLT_RunLens,
           n2 \in RLT_RunLens \cup {0}, t \in RLT_Tails }
  \cup { Copies(a, 8) \o RLT_AllBytes(k) \o t :
           a \in {1, 7}, k \in {0, 1, 2}, t \in RLT_Tails }

InitRLT ==
  /\ NoPredictor
  /\ codec = [kind |-> "RLT"]
  /\ block \in RLT_Blocks
  /\ encoded = <<>>
  /\ decoded = <<>>
  /\ loc = <<>>
  /\ pc = "Forward"
  /\ ret = [fwd |-> NotReturned, inv |-> NotReturned]

\* Forward, lines 61-109.  dst has MaxEncodedLen(len(src)) bytes.
RLT_ForwardBegin ==
  /\ pc = "Forward"
  /\ IF Len(block) = 0
     THEN /\ ret' = [ret EXCEPT !.fwd = Returned(0, 0, Nil)]
          /\ pc' = "Inverse"
          /\ UNCHANGED <<encoded, loc>>
     ELSE LET escape == RLT_Escape(block)
              prev == Byte(block, 0)
              out  == IF prev = escape THEN <<escape, prev, 0>> ELSE <<escape, prev>>
          IN  /\ encoded' = out
              /\ loc' = [ srcIdx |-> 1, dstIdx |-> Len(out), run |-> 0, prev |-> prev,
                          escape |-> escape, err |-> Nil ]
              /\ pc' = "ForwardLoop"
              /\ UNCHANGED ret
  /\ UNCHANGED <<codec, block, decoded>>
  /\ UNCHANGED tpaqVars

\* The number of bytes among src[srcIdx .. srcIdx+3] that continue the run of prev.
RLT_Same(src, srcIdx, prev) ==
  IF Byte(src, srcIdx) # prev THEN 0
  ELSE IF Byte(src, srcIdx + 1) # prev THEN 1
  ELSE IF Byte(src, srcIdx + 2) # prev THEN 2
  ELSE IF Byte(src, srcIdx + 3) # prev THEN 3
  ELSE 4

\* Forward, lines 112-180: one iteration of the main loop.
RLT_ForwardLoop ==
  /\ pc = "ForwardLoop"
  /\ loc.err = Nil
  /\ loc.srcIdx < Len(block) - 4
  /\ LET same == RLT_Same(block, loc.srcIdx, loc.prev)
         l1 == [loc EXCEPT !.srcIdx = @ + same, !.run = @ + same]
         e  == RLT_EmitRun(l1, RLT_MaxEncodedLen(Len(block)), TRUE)
     IN  IF same = 4 /\ l1.run < RLT_MAX_RUN4
         THEN /\ loc' = l1
              /\ UNCHANGED encoded
         ELSE IF e.err # Nil
         THEN /\ loc' = [l1 EXCEPT !.err = e.err]
              /\ UNCHANGED encoded
         ELSE /\ encoded' = encoded \o e.bytes
              /\ loc' = [ l1 EXCEPT !.dstIdx = @ + Len(e.bytes),
                                    !.prev = Byte(block, l1.srcIdx),
                                    !.srcIdx = @ + 1,
                                    !.run = 1 ]
  /\ UNCHANGED <<codec, block, decoded, pc, ret>>
  /\ UNCHANGED tpaqVars

\* Forward, lines 182-225: the remaining run, the last bytes, the return.
RLT_ForwardEnd ==
  /\ pc = "ForwardLoop"
  /\ loc.err # Nil \/ loc.srcIdx >= Len(block) - 4
  /\ LET dstEnd == RLT_MaxEncodedLen(Len(block))
         e    == RLT_EmitRun(loc, dstEnd, FALSE)
         d1   == loc.dstIdx + Len(e.bytes)
         left == Len(block) - loc.srcIdx
         n    == IF left < dstEnd - d1 THEN left ELSE dstEnd - d1
         s2   == loc.srcIdx + n
         d2   == d1 + n
     IN  IF loc.err # Nil
         THEN /\ ret' = [ret EXCEPT !.fwd = Returned(loc.srcIdx, loc.dstIdx, loc.err)]
              /\ UNCHANGED <<encoded, loc>>
         ELSE IF e.err = "panic"
         THEN /\ ret' = [ret EXCEPT !.fwd = Returned(loc.srcIdx, loc.dstIdx, e.err)]
              /\ UNCHANGED <<encoded, loc>>
         ELSE /\ encoded' = encoded \o e.bytes \o SubSeq(block, loc.srcIdx + 1, s2)
              /\ loc' = [loc EXCEPT !.srcIdx = s2, !.dstIdx = d2]
              /\ ret' = [ ret EXCEPT !.fwd =
                            Returned(s2, d2,
                                     IF s2 # Len(block) THEN "Output buffer is too small"
                                     ELSE IF d2 > s2 THEN "Input not compressed"
                                     ELSE e.err) ]
  /\ pc' = "Inverse"
  /\ UNCHANGED <<codec, block, decoded>>
  /\ UNCHANGED tpaqVars

\* Inverse, lines 271-298.  src is what Forward wrote, dst has len(block) bytes.
RLT_InverseBegin ==
  /\ pc = "Inverse"
  /\ ret.fwd.err = Nil
  /\ LET src == encoded
         escape == Byte(src, 0)
     IN  IF Len(src) = 0
         THEN /\ ret' = [ret EXCEPT !.inv = Returned(0, 0, Nil)]
              /\ pc' = "done"
              /\ UNCHANGED <<decoded, loc>>
         ELSE IF Len(src) < 2
         THEN /\ ret' = [ret EXCEPT !.inv = Returned(1, 0, "panic")]
              /\ pc' = "done"
              /\ UNCHANGED <<decoded, loc>>
         ELSE IF Byte(src, 1) # escape
         THEN /\ loc' = [srcIdx |-> 1, dstIdx |-> 0, escape |-> escape, err |-> Nil]
              /\ pc' = "InverseLoop"
              /\ UNCHANGED <<decoded, ret>>
         ELSE IF 2 < Len(src) /\ Byte(src, 2) # 0
         THEN /\ ret' = [ ret EXCEPT !.inv =
                            Returned(2, 0, "Invalid input data: input starts with a run") ]
              /\ pc' = "done"
              /\ UNCHANGED <<decoded, loc>>
         ELSE IF Len(block) = 0
         THEN /\ ret' = [ret EXCEPT !.inv = Returned(3, 0, "panic")]
              /\ pc' = "done"
              /\ UNCHANGED <<decoded, loc>>
         ELSE /\ decoded' = <<escape>>
              /\ loc' = [srcIdx |-> 3, dstIdx |-> 1, escape |-> escape, err |-> Nil]
              /\ pc' = "InverseLoop"
              /\ UNCHANGED ret
  /\ UNCHANGED <<codec, block, encoded>>
  /\ UNCHANGED tpaqVars

\* Inverse, lines 338-359: the run length read at srcIdx (after its first
\* byte run), the bytes it takes and the error.
RLT_RunLength(src, srcIdx, run) ==
  IF run = 255
  THEN IF srcIdx + 1 >= Len(src)
       THEN [run |-> 0, n |-> 0, err |-> "Invalid input data"]
       ELSE [ run |-> (Byte(src, srcIdx) * 256) + Byte(src, srcIdx + 1)
                        + RLT_RUN_LEN_ENCODE2 + (RLT_RUN_THRESHOLD - 1),
              n |-> 2, err |-> Nil ]
  ELSE IF run >= RLT_RUN_LEN_ENCODE1
  THEN IF srcIdx >= Len(src)
       THEN [run |-> 0, n |-> 0, err |-> "Invalid input data"]
       ELSE [ run |-> ((run - RLT_RUN_LEN_ENCODE1) * 256) + Byte(src, srcIdx)
                        + RLT_RUN_LEN_ENCODE1 + (RLT_RUN_THRESHOLD - 1),
              n |-> 1, err |-> Nil ]
  ELSE [run |-> run + (RLT_RUN_THRESHOLD - 1), n |-> 0, err |-> Nil]

\* Inverse, lines 301-382: one iteration of the main loop.
RLT_InverseLoop ==
  /\ pc = "InverseLoop"
  /\ loc.err = Nil
  /\ loc.srcIdx < Len(encoded)
  /\ LET src == encoded
         dstEnd == Len(block)
         s == loc.srcIdx
         d == loc.dstIdx
         r == RLT_RunLength(src, s + 2, Byte(src, s + 1))
     IN  IF Byte(src, s) # loc.escape
         THEN IF d >= dstEnd
              THEN loc' = [loc EXCEPT !.err = "Invalid input data"] /\ UNCHANGED decoded
              ELSE /\ decoded' = Append(decoded, Byte(src, s))
                   /\ loc' = [loc EXCEPT !.srcIdx = s + 1, !.dstIdx = d + 1]
         ELSE IF s + 1 >= Len(src)
         THEN loc' = [loc EXCEPT !.srcIdx = s + 1, !.err = "Invalid input data"]
                /\ UNCHANGED decoded
         ELSE IF d = 0
         THEN loc' = [loc EXCEPT !.srcIdx = s + 1, !.err = "panic"] /\ UNCHANGED decoded
         ELSE IF Byte(src, s + 1) = 0
         THEN IF d >= dstEnd
              THEN loc' = [loc EXCEPT !.srcIdx = s + 2, !.err = "Invalid input data"]
                     /\ UNCHANGED decoded
              ELSE /\ decoded' = Append(decoded, loc.escape)
                   /\ loc' = [loc EXCEPT !.srcIdx = s + 2, !.dstIdx = d + 1]
         ELSE IF r.err # Nil
         THEN loc' = [loc EXCEPT !.srcIdx = s + 2, !.err = r.err] /\ UNCHANGED decoded
         ELSE IF d + r.run >= dstEnd \/ r.run > RLT_MAX_RUN
         THEN loc' = [loc EXCEPT !.srcIdx = s + 2 + r.n, !.err = "Invalid run length"]
                /\ UNCHANGED decoded
         ELSE /\ decoded' = decoded \o Copies(Byte(decoded, d - 1), r.run)
              /\ loc' = [loc EXCEPT !.srcIdx = s + 2 + r.n, !.dstIdx = d + r.run]
  /\ UNCHANGED <<codec, block, encoded, pc, ret>>
  /\ UNCHANGED tpaqVars

\* Inverse, lines 384-388.
RLT_InverseEnd ==
  /\ pc = "InverseLoop"
  /\ loc.err # Nil \/ loc.srcIdx >= Len(encoded)
  /\ ret' = [ ret EXCEPT !.inv =
                Returned(loc.srcIdx, loc.dstIdx,
                         IF loc.srcIdx # Len(encoded) /\ loc.err = Nil
                         THEN "Invalid input data" ELSE loc.err) ]
  /\ pc' = "done"
  /\ UNCHANGED <<codec, block, encoded, decoded, loc>>
  /\ UNCHANGED tpaqVars

NextRLT ==
  \/ RLT_ForwardBegin
  \/ RLT_ForwardLoop
  \/ RLT_ForwardEnd
  \/ RLT_InverseBegin
  \/ RLT_InverseLoop
  \/ RLT_InverseEnd

SpecRLT == InitRLT /\ [][NextRLT]_vars

\* C4: when RLT.Forward returns no error, RLT.Inverse applied to what it wrote
\* returns no error and reproduces the block byte for byte, also when every
\* byte value occurs in the block and the escape symbol is among them.
C4_RLTRoundTrip ==
  (pc = "done" /\ codec.kind = "RLT") => (ret.inv.err = Nil /\ decoded = block)

\* A block in which every byte value occurs goes through Forward and Inverse.
C4_Witness ==
  /\ pc = "done" /\ codec.kind = "RLT"
  /\ Len(block) > 256
  /\ ret.inv.err = Nil /\ decoded = block

(***************************************************************************)
(* X86Codec                                                                *)
(***************************************************************************)
X86_INSTRUCTION_MASK == 254
X86_INSTRUCTION_JUMP == 232
X86_ADDRESS_MASK == 213
X86_ESCAPE == 2

X86_MaxEncodedLen(srcLen) ==
  IF srcLen >= 1073741824 THEN srcLen
  ELSE IF srcLen <= 512 THEN srcLen + 32
  ELSE srcLen + (srcLen \div 16)

\* b & _X86_INSTRUCTION_MASK == _X86_INSTRUCTION_JUMP
X86_IsJump(b) == And16(b, X86_INSTRUCTION_MASK) = X86_INSTRUCTION_JUMP

\* The jumps counted with the conflict test applied to the byte that follows
\* the opcode.
X86_Jumps_Conflict(src) ==
  Cardinality({ i \in 0..(Len(src) - 9) :
                  /\ X86_IsJump(Byte(src, i))
                  /\ Byte(src, i + 4) \in {0, 255}
                  /\ Byte(src, i + 1) \notin {0, 1, X86_ESCAPE} })

\* Forward, lines 2066-2079: the number of relative jumps counted.
X86_Jumps(src) ==
  Cardinality({ i \in 0..(Len(src) - 9) :
                  /\ X86_IsJump(Byte(src, i))
                  /\ Byte(src, i + 4) \in {0, 255}
                  /\ Byte(src, i) \notin {0, 1, X86_ESCAPE} })

\* Forward, lines 2119-2126: the four bytes written for the address at srcIdx.
X86_EncodeAddress(src, srcIdx) ==
  LET sgn  == Byte(src, srcIdx + 3)
      addr == Add32(Int32((sgn * 256) + Byte(src, srcIdx + 2),
                          (Byte(src, srcIdx + 1) * 256) + Byte(src, srcIdx)),
                    srcIdx)
  IN  << (sgn + 1) % 256,
         Xor16(X86_ADDRESS_MASK, (addr \div 65536) % 256),
         Xor16(X86_ADDRESS_MASK, (addr \div 256) % 256),
         Xor16(X86_ADDRESS_MASK, addr % 256) >>

\* The address decoded relative to the read position instead of the write
\* position.
X86_DecodeAddress_BySrcIdx(src, srcIdx, dstIdx) ==
  LET sgn  == Byte(src, srcIdx)
      addr == Add32(Int32((((sgn - 1) % 256) * 256)
                            + Xor16(X86_ADDRESS_MASK, Byte(src, srcIdx + 1)),
                          (Xor16(X86_ADDRESS_MASK, Byte(src, srcIdx + 2)) * 256)
                            + Xor16(X86_ADDRESS_MASK, Byte(src, srcIdx + 3))),
                    -srcIdx)
  IN  << addr % 256, (addr \div 256) % 256, (addr \div 65536) % 256, (sgn - 1) % 256 >>

\* Inverse, lines 2176-2185: the four bytes written at dstIdx for the encoded
\* address at srcIdx.
X86_DecodeAddress(src, srcIdx, dstIdx) ==
  LET sgn  == Byte(src, srcIdx)
      addr == Add32(Int32((((sgn - 1) % 256) * 256)
                            + Xor16(X86_ADDRESS_MASK, Byte(src, srcIdx + 1)),
                          (Xor16(X86_ADDRESS_MASK, Byte(src, srcIdx + 2)) * 256)
                            + Xor16(X86_ADDRESS_MASK, Byte(src, srcIdx + 3))),
                    -dstIdx)
  IN  << addr % 256, (addr \div 256) % 256, (addr \div 65536) % 256, (sgn - 1) % 256 >>

\* The blocks given to X86Codec.Forward: a body of up to X86_MaxBody bytes
\* followed by padding; the long padding makes the jump filter apply.
X86_MaxBody == 5
X86_Alphabet == {232, 0, 2, 255}
X86_Bodies == UNION {[1..n -> X86_Alphabet] : n \in 0..X86_MaxBody}
\* Blocks of 128 bytes and more with one jump opcode: 0xE9, a sign byte that
\* is neither 0x00 nor 0xFF, and an opcode as the last and as the first byte
\* that the counting loop does not reach.
X86_LongBlocks ==
  { <<233>> \o Copies(0, 128),
    <<232, 255, 255, 255, 2>> \o Copies(0, 128),
    Copies(0, 120) \o <<232>> \o Copies(0, 8),
    Copies(0, 121) \o <<232>> \o Copies(0, 7) }
\* Blocks dense in conflicts: 0xE8 0x00 (or 0xE9 0x01, 0xE8 0x02) 32 and 33
\* times, then the 8 bytes the loop leaves to the final copy.
X86_DenseBlocks ==
  { [i \in 1..(2 * n) |-> IF i % 2 = 1 THEN p[1] ELSE p[2]] \o Copies(0, 8) :
      n \in {32, 33}, p \in {<<232, 0>>, <<233, 1>>, <<232, 2>>} }
X86_Blocks ==
  { b \o p : b \in X86_Bodies, p \in {Copies(0, 9), Copies(255, 9)} }
  \cup { b \o Copies(0, 128) : b \in {c \in X86_Bodies : Len(c) <= 1} }
  \cup { <<>>, <<232>> }
  \cup X86_LongBlocks
  \cup X86_DenseBlocks

InitX86 ==
  /\ NoPredictor
  /\ codec = [kind |-> "X86"]
  /\ block \in X86_Blocks
  /\ encoded = <<>>
  /\ decoded = <<>>
  /\ loc = <<>>
  /\ pc = "Forward"
  /\ ret = [fwd |-> NotReturned, inv |-> NotReturned]

\* Forward, lines 2056-2089.  dst has MaxEncodedLen(len(src)) bytes.
X86_ForwardBegin ==
  /\ pc = "Forward"
  /\ IF Len(block) = 0
     THEN /\ ret' = [ret EXCEPT !.fwd = Returned(0, 0, "panic")]
          /\ pc' = "Inverse"
          /\ UNCHANGED loc
     ELSE IF X86_Jumps(block) < Len(block) \div 128
     THEN /\ ret' = [ret EXCEPT !.fwd = Returned(0, 0, "Not a binary or not enough jumps")]
          /\ pc' = "Inverse"
          /\ UNCHANGED loc
     ELSE /\ loc' = [srcIdx |-> 0, dstIdx |-> 0, err |-> Nil]
          /\ pc' = "ForwardLoop"
          /\ UNCHANGED ret
  /\ UNCHANGED <<codec, block, encoded, decoded>>
  /\ UNCHANGED tpaqVars

\* Forward, lines 2091-2129: one iteration of the loop; out is what it writes
\* and n the number of bytes of src it takes.
X86_ForwardLoop ==
  /\ pc = "ForwardLoop"
  /\ loc.err = Nil
  /\ loc.srcIdx < Len(block) - 8
  /\ LET s   == loc.srcIdx
         op  == Byte(block, s)
         cur == Byte(block, s + 1)
         sgn == Byte(block, s + 4)
         out == IF ~X86_IsJump(op) THEN <<op>>
                ELSE IF cur \in {0, 1, X86_ESCAPE} THEN <<op, X86_ESCAPE, cur>>
                ELSE IF sgn # 0 /\ sgn # 255 THEN <<op>>
                ELSE <<op>> \o X86_EncodeAddress(block, s + 1)
         n   == IF ~X86_IsJump(op) THEN 1
                ELSE IF cur \in {0, 1, X86_ESCAPE} THEN 2
                ELSE IF sgn # 0 /\ sgn # 255 THEN 1
                ELSE 5
     IN  IF loc.dstIdx + Len(out) > X86_MaxEncodedLen(Len(block))
         THEN loc' = [loc EXCEPT !.err = "panic"] /\ UNCHANGED encoded
         ELSE /\ encoded' = encoded \o out
              /\ loc' = [loc EXCEPT !.srcIdx = s + n, !.dstIdx = @ + Len(out)]
  /\ UNCHANGED <<codec, block, decoded, pc, ret>>
  /\ UNCHANGED tpaqVars

\* Forward, lines 2131-2137: the last bytes and the return.
X86_ForwardEnd ==
  /\ pc = "ForwardLoop"
  /\ loc.err # Nil \/ loc.srcIdx >= Len(block) - 8
  /\ LET tail == SubSeq(block, loc.srcIdx + 1, Len(block))
     IN  IF loc.err # Nil
         THEN /\ ret' = [ret EXCEPT !.fwd = Returned(loc.srcIdx, loc.dstIdx, loc.err)]
              /\ UNCHANGED <<encoded, loc>>
         ELSE IF loc.dstIdx + Len(tail) > X86_MaxEncodedLen(Len(block))
         THEN /\ ret' = [ret EXCEPT !.fwd = Returned(loc.srcIdx, loc.dstIdx, "panic")]
              /\ UNCHANGED <<encoded, loc>>
         ELSE /\ encoded' = encoded \o tail
              /\ loc' = [loc EXCEPT !.srcIdx = Len(block), !.dstIdx = @ + Len(tail)]
              /\ ret' = [ret EXCEPT !.fwd = Returned(Len(block), loc.dstIdx + Len(tail), Nil)]
  /\ pc' = "Inverse"
  /\ UNCHANGED <<codec, block, decoded>>
  /\ UNCHANGED tpaqVars

\* Inverse, lines 2144-2151.  src is what Forward wrote, dst has len(block) bytes.
X86_InverseBegin ==
  /\ pc = "Inverse"
  /\ ret.fwd.err = Nil
  /\ loc' = [srcIdx |-> 0, dstIdx |-> 0, err |-> Nil]
  /\ pc' = "InverseLoop"
  /\ UNCHANGED <<codec, block, encoded, decoded, ret>>
  /\ UNCHANGED tpaqVars

\* Inverse, lines 2153-2188: one iteration of the loop.
X86_InverseLoop ==
  /\ pc = "InverseLoop"
  /\ loc.err = Nil
  /\ loc.srcIdx < Len(encoded) - 8
  /\ LET s   == loc.srcIdx
         op  == Byte(encoded, s)
         sgn == Byte(encoded, s + 1)
         out == IF ~X86_IsJump(op) THEN <<op>>
                ELSE IF sgn = X86_ESCAPE THEN <<op>>
                ELSE IF sgn # 1 /\ sgn # 0 THEN <<op>>
                ELSE <<op>> \o X86_DecodeAddress(encoded, s + 1, loc.dstIdx + 1)
         n   == IF ~X86_IsJump(op) THEN 1
                ELSE IF sgn = X86_ESCAPE THEN 2
                ELSE IF sgn # 1 /\ sgn # 0 THEN 1
                ELSE 5
     IN  IF loc.dstIdx + Len(out) > Len(block)
         THEN loc' = [loc EXCEPT !.err = "panic"] /\ UNCHANGED decoded
         ELSE /\ decoded' = decoded \o out
              /\ loc' = [loc EXCEPT !.srcIdx = s + n, !.dstIdx = @ + Len(out)]
  /\ UNCHANGED <<codec, block, encoded, pc, ret>>
  /\ UNCHANGED tpaqVars

\* Inverse, lines 2190-2196: the last bytes and the return.
X86_InverseEnd ==
  /\ pc = "InverseLoop"
  /\ loc.err # Nil \/ loc.srcIdx >= Len(encoded) - 8
  /\ LET tail == SubSeq(encoded, loc.srcIdx + 1, Len(encoded))
     IN  IF loc.err # Nil
         THEN /\ ret' = [ret EXCEPT !.inv = Returned(loc.srcIdx, loc.dstIdx, loc.err)]
              /\ UNCHANGED <<decoded, loc>>
         ELSE IF loc.dstIdx + Len(tail) > Len(block)
         THEN /\ ret' = [ret EXCEPT !.inv = Returned(loc.srcIdx, loc.dstIdx, "panic")]
              /\ UNCHANGED <<decoded, loc>>
         ELSE /\ decoded' = decoded \o tail
              /\ loc' = [loc EXCEPT !.srcIdx = Len(encoded), !.dstIdx = @ + Len(tail)]
              /\ ret' = [ret EXCEPT !.inv = Returned(Len(encoded), loc.dstIdx + Len(tail), Nil)]
  /\ pc' = "done"
  /\ UNCHANGED <<codec, block, encoded>>
  /\ UNCHANGED tpaqVars

NextX86 ==
  \/ X86_ForwardBegin
  \/ X86_ForwardLoop
  \/ X86_ForwardEnd
  \/ X86_InverseBegin
  \/ X86_InverseLoop
  \/ X86_InverseEnd

SpecX86 == InitX86 /\ [][NextX86]_vars

\* C3: when X86Codec.Forward returns no error, X86Codec.Inverse applied to what
\* it wrote returns no error and reproduces the block byte for byte, also when
\* escape pairs make the encoded stream longer than the block.
C3_X86RoundTrip ==
  (pc = "done" /\ codec.kind = "X86") => (ret.inv.err = Nil /\ decoded = block)

\* A block with an escaped jump and an encoded address went through Forward and
\* Inverse; the encoded stream is longer than the block.
C3_Witness ==
  /\ pc = "done" /\ codec.kind = "X86"
  /\ Len(encoded) > Len(block)
  /\ \E i \in 1..(Len(block) - 4) :
       /\ X86_IsJump(block[i])
       /\ block[i + 1] = 255
       /\ SubSeq(encoded, 1, i + 1) # SubSeq(block, 1, i + 1)
  /\ decoded = block

(***************************************************************************)
(* TextCodec                                                               *)
(***************************************************************************)
TC_THRESHOLD1 == 128
TC_THRESHOLD2 == TC_THRESHOLD1 * TC_THRESHOLD1
TC_THRESHOLD3 == 32
TC_THRESHOLD4 == TC_THRESHOLD3 * 128
TC_MAX_DICT_SIZE == 524288
TC_MAX_WORD_LENGTH == 32
TC_LOG_HASHES_SIZE == 24
TC_ESCAPE_TOKEN1 == 15
TC_ESCAPE_TOKEN2 == 14
LF == 10
CR == 13
TC_MASK_NOT_TEXT == 128
TC_MASK_ALMOST_FULL_ASCII == 8
TC_MASK_FULL_ASCII == 4
TC_MASK_XML_HTML == 2
TC_MASK_CRLF == 1
TC_HASH1 == 2146121005
TC_HASH2 == -2073254261

isLowerCase(val) == val >= 97 /\ val <= 122
isUpperCase(val) == val >= 65 /\ val <= 90
isText(val) == isLowerCase(val) \/ isUpperCase(val)
\* TC_DELIMITER_CHARS[val], the table initDelimiterChars builds
isDelimiter(val) ==
  \/ val >= 32 /\ val <= 47
  \/ val >= 58 /\ val <= 63
  \/ val \in {10, 13, 9, 95, 124, 123, 125, 91, 93}

\* h*TC_HASH1 ^ int32(cur)*TC_HASH2
TC_HashStep(h, cur) == Xor32(Mul32(h, TC_HASH1), Mul32(cur, TC_HASH2))

\* The hashes hs of the first bytes of s, followed by the hash after each
\* further byte of s (hs is never empty).
RECURSIVE TC_Hashes(_, _)
TC_Hashes(hs, s) ==
  IF Len(hs) > Len(s) THEN hs
  ELSE TC_Hashes(Append(hs, TC_HashStep(hs[Len(hs)], s[Len(hs)])), s)

\* The hash of the bytes s[from..to] (1-based, inclusive) folded into h.
TC_HashFrom(h, s, from, to) ==
  TC_Hashes(<<h>>, SubSeq(s, from, to))[(IF to < from THEN 0 ELSE to - from + 1) + 1]

TC_DICT_EN_1024 ==
  <<
    204, 113, 33, 18, 3, 67, 184, 90, 13, 204, 237, 136, 76, 122, 19, 204, 112, 19, 148, 228, 120, 57, 73, 196,
    156, 5, 68, 184, 220, 128, 32, 60, 128, 98, 4, 225, 81, 61, 132, 133, 137, 192, 15, 49, 196, 98, 4, 182,
    57, 66, 195, 216, 115, 174, 70, 32, 13, 176, 6, 35, 59, 49, 200, 75, 96, 18, 161, 43, 20, 8, 120, 13,
    98, 84, 78, 50, 211, 147, 200, 113, 54, 28, 4, 243, 28, 66, 17, 216, 114, 2, 30, 97, 19, 152, 133, 68,
    156, 4, 160, 68, 73, 200, 50, 113, 17, 136, 227, 4, 177, 139, 148, 71, 97, 17, 19, 98, 11, 47, 35, 140,
    18, 17, 2, 1, 68, 132, 204, 113, 17, 19, 49, 209, 57, 65, 135, 204, 66, 203, 216, 113, 13, 216, 228, 74,
    204, 113, 12, 224, 68, 244, 62, 229, 141, 185, 68, 232, 53, 51, 169, 81, 36, 226, 57, 66, 195, 185, 81, 17,
    184, 176, 243, 28, 131, 74, 140, 6, 54, 1, 140, 199, 0, 218, 200, 40, 75, 147, 28, 68, 103, 57, 108, 199,
    16, 218, 19, 74, 241, 14, 60, 177, 51, 88, 235, 14, 68, 76, 199, 17, 33, 33, 16, 67, 109, 57, 109, 128,
    53, 57, 72, 69, 36, 237, 17, 109, 18, 19, 33, 4, 204, 131, 4, 176, 3, 108, 0, 214, 51, 28, 131, 70,
    176, 2, 132, 156, 68, 68, 216, 66, 203, 184, 210, 216, 156, 132, 181, 17, 22, 32, 21, 49, 17, 216, 132, 199,
    57, 68, 224, 52, 228, 199, 17, 27, 78, 128, 178, 225, 16, 178, 4, 84, 72, 68, 20, 228, 68, 184, 81, 115,
    28, 229, 6, 31, 35, 160, 24, 2, 13, 73, 61, 135, 32, 177, 43, 1, 36, 243, 56, 232, 206, 88, 220, 206,
    12, 6, 50, 0, 193, 33, 0, 34, 179, 0, 161, 36, 0, 33, 227, 32, 81, 68, 68, 67, 83, 216, 113, 17,
    18, 17, 19, 88, 65, 13, 204, 115, 146, 18, 69, 68, 55, 33, 4, 55, 67, 67, 17, 24, 1, 57, 68, 238,
    52, 72, 11, 72, 233, 64, 9, 59, 20, 73, 56, 2, 77, 64, 11, 45, 139, 209, 17, 81, 13, 78, 69, 207,
    16, 36, 226, 56, 212, 192, 32, 216, 142, 52, 33, 17, 54, 193, 50, 8, 115, 142, 47, 129, 0, 71, 50, 15,
    172, 0, 99, 80, 73, 21, 17, 28, 206, 88, 4, 67, 152, 132, 75, 148, 132, 76, 152, 176, 18, 74, 96, 18,
    168, 65, 15, 216, 228, 75, 15, 36, 200, 44, 189, 132, 53, 60, 135, 57, 66, 195, 200, 241, 13, 15, 36, 192,
    24, 72, 206, 9, 51, 145, 176, 129, 135, 78, 147, 129, 152, 232, 142, 53, 50, 13, 80, 73, 21, 17, 22, 14,
    52, 75, 68, 84, 68, 96, 53, 37, 132, 70, 81, 22, 176, 64, 13, 140, 129, 69, 17, 17, 13, 8, 76, 196,
    52, 59, 68, 16, 58, 196, 1, 81, 51, 69, 139, 72, 8, 73, 206, 44, 60, 142, 48, 68, 199, 32, 209, 160,
    72, 173, 128, 68, 202, 200, 62, 35, 149, 17, 26, 18, 73, 65, 39, 0, 243, 196, 55, 53, 17, 54, 179, 142,
    43, 37, 17, 18, 50, 18, 8, 229, 68, 70, 82, 6, 29, 59, 0, 14, 50, 17, 16, 36, 200, 56, 216, 6,
    68, 65, 50, 56, 193, 14, 52, 73, 64, 32, 188, 68, 72, 241, 2, 78, 211, 147, 32, 33, 34, 28, 226, 2,
    18, 17, 6, 32, 220, 199, 68, 65, 50, 97, 36, 196, 50, 177, 21, 16, 185, 68, 16, 187, 4, 17, 56, 142,
    48, 240, 13, 98, 19, 151, 200, 115, 150, 188, 176, 24, 172, 133, 68, 172, 68, 211, 17, 25, 6, 26, 213, 12,
    4, 68, 110, 60, 67, 111, 68, 224, 75, 16, 201, 64, 78, 112, 13, 14, 193, 0, 73, 68, 68, 193, 65, 18,
    76, 131, 141, 136, 2, 203, 196, 67, 4, 48, 17, 17, 136, 68, 83, 0, 131, 111, 81, 59, 68, 93, 56, 135,
    0, 132, 114, 76, 4, 83, 197, 67, 113, 0, 132, 132, 152, 224, 11, 196, 64, 11, 45, 137, 206, 48, 76, 196,
    2, 32, 13, 12, 128, 192, 76, 75, 14, 52, 70, 33, 81, 34, 13, 17, 36, 184, 57, 67, 70, 152, 227, 131,
    136, 229, 17, 78, 82, 13, 14, 163, 78, 90, 162, 13, 14, 113, 11, 62, 210, 6, 29, 56, 135, 32, 176, 235,
    57, 62, 14, 81, 29, 18, 145, 129, 56, 17, 45, 142, 68, 56, 72, 79, 80, 13, 176, 227, 83, 30, 112, 11,
    22, 179, 150, 176, 130, 203, 32, 227, 103, 32, 97, 238, 68, 96, 13, 33, 144, 19, 32, 227, 113, 16, 57, 145,
    16, 67, 97, 45, 65, 54, 28, 132, 196, 132, 176, 2, 43, 131, 148, 69, 33, 11, 22, 66, 6, 29, 56, 78,
    76, 122, 200, 77, 50, 196, 156, 229, 18, 18, 177, 19, 140, 68, 143, 33, 49, 47, 68, 229, 72, 12, 76, 132,
    69, 82, 2, 18, 114, 12, 72, 66, 197, 149, 18, 4, 52, 56, 196, 72, 36, 72, 4, 73, 64, 76, 113, 17,
    140, 69, 68, 44, 227, 204, 16, 212, 224, 88, 6, 42, 32, 178, 243, 68, 131, 231, 57, 68, 102, 0, 193, 46,
    21, 49, 13, 188, 176, 13, 78, 242, 192, 8, 73, 13, 14, 3, 14, 52, 108, 136, 52, 33, 50, 76, 3, 67,
    140, 68, 136, 24, 219, 192, 69, 50, 2, 80, 176, 17, 201, 64, 195, 16, 210, 216, 176, 67, 1, 17, 27, 192,
    98, 176, 22, 132, 227, 138, 200, 130, 196, 52, 33, 32, 44, 195, 146, 78, 131, 66, 45, 64, 196, 128, 96, 8,
    54, 66, 19, 28, 68, 115, 56, 226, 229, 33, 81, 46, 52, 33, 43, 16, 4, 147, 145, 115, 203, 0, 131, 104,
    12, 67, 83, 32, 86, 52, 53, 50, 11, 200, 132, 196, 176, 131, 84, 76, 72, 142, 80, 242, 196, 216, 65, 10,
    176, 4, 211, 17, 24, 81, 32, 209, 163, 17, 48, 8, 46, 131, 69, 57, 19, 0, 76, 131, 141, 180, 228, 199,
    32, 209, 160, 53, 132, 199, 32, 209, 164, 84, 68, 88, 76, 114, 13, 26, 1, 142, 172, 64, 3, 200, 227, 4,
    76, 131, 4, 75, 67, 67, 17, 20, 147, 0, 208, 246, 28, 68, 199, 17, 27, 64, 77, 68, 68, 204, 225, 132,
    76, 113, 17, 148, 226, 203, 57, 107, 192, 68, 67, 83, 201, 51, 143, 160, 208, 196, 16, 56, 200, 20, 82, 2,
    80, 180, 239, 80, 18, 200, 10, 2, 209, 16, 0, 216, 200, 241, 0, 42, 192, 8, 53, 48, 8, 55, 17, 12,
    0, 131, 103, 16, 4, 96, 44, 179, 150, 176, 64, 200, 2, 225, 69, 32, 33, 33, 16, 209, 5, 33, 56, 206,
    57, 25, 212, 26, 241, 17, 72, 227, 107, 1, 49, 17, 141, 68, 72, 52, 109, 128, 70, 114, 18, 76, 228, 88,
    129, 17, 148, 19, 98, 19, 28, 131, 114, 17, 56, 17, 76, 128, 139, 19, 36, 192, 76, 131, 141, 176, 228, 77,
    32, 209, 182, 0, 178, 164, 84, 67, 83, 216, 131, 98, 28, 227, 146, 18, 17, 7, 1, 82, 14, 71, 33, 206,
    57, 57, 72, 68, 73, 78, 56, 60, 200, 76, 177, 32, 68, 229, 13, 14, 2, 17, 204, 64, 2, 28, 68, 102,
    0, 252, 148, 4, 145, 2, 78, 67, 78, 80, 97, 239, 68, 229, 68, 128, 36, 78, 73, 40, 11, 76, 115, 148,
    24, 121, 196, 0, 57, 78, 57, 60, 132, 8, 227, 67, 132, 230, 44, 0, 131, 107, 32, 72, 1, 44, 72, 136,
    84, 130, 243, 0, 18, 196, 172, 229, 68, 189, 19, 130, 17, 36, 174, 20, 81, 17, 201, 53, 3, 16, 212, 226,
    56, 212, 136, 12, 68, 96, 60, 241, 0, 71, 36, 212, 13, 136, 84, 98, 209, 0, 68, 182, 39, 80, 192, 13,
    145, 82, 3, 16, 208, 132, 204, 69, 211, 176, 68, 199, 56, 58, 13, 8, 181, 3, 32, 209, 178, 16, 208, 241,
    16, 2, 200, 100, 76, 132, 53, 33, 33, 80, 130, 195, 136, 227, 83, 68, 226, 224, 80, 50, 4, 52, 33, 50,
    17, 81, 17, 0, 184, 148, 78, 35, 139, 44, 65, 132, 160, 212, 196, 68, 68, 147, 201, 64, 130, 17, 36, 178,
    60, 64, 136, 0, 188, 72, 72, 169, 23, 60, 68, 72, 16, 208, 132, 132, 65, 200, 52, 56, 68, 77, 49, 17,
    196, 68, 148, 45, 60, 209, 16, 4, 242, 33, 124, 68, 44, 4, 200, 56, 212, 135, 32, 248, 13, 32, 192, 11,
    160, 195, 209, 57, 81, 39, 0, 132, 114, 76, 6, 51, 56, 252, 68, 13, 64, 132, 188, 68, 71, 0, 244, 171,
    1, 49, 54, 68, 132, 196, 70, 242, 2, 42, 66, 210, 19, 34, 6, 52, 129, 72, 8, 3, 83, 136, 112, 13,
    8, 73, 206, 76, 66, 230, 16, 209, 17, 0, 188, 78, 8, 172, 68, 65, 66, 17, 18, 2, 206, 52, 105, 72,
    79, 49, 196, 49, 33, 11, 84, 68, 177, 16, 243, 145, 78, 35, 141, 12, 132, 200, 56, 220, 68, 0, 33, 243,
    69, 68, 199, 144, 81, 78, 69, 56, 196, 8, 128, 196, 196, 4, 196, 144, 53, 2, 1, 50, 14, 54, 83, 145,
    8, 73, 128, 68, 49, 13, 141, 21, 6, 172, 64, 3, 17, 29, 78, 32, 33, 48, 80, 132, 196, 216, 115, 139,
    19, 33, 4, 50, 194, 13, 14, 82, 13, 0, 178, 216, 200, 132, 113, 17, 53, 17, 54, 84, 68, 19, 36, 206,
    69, 140, 68, 72, 243, 141, 14, 245, 18, 30, 0, 130, 57, 16, 200, 52, 104, 81, 57, 49, 196, 70, 177, 0,
    68, 220, 142, 54, 115, 143, 18, 49, 21, 16, 179, 143, 148, 65, 11, 32, 209, 177, 16, 0, 226, 1, 20, 88,
    140, 132, 132, 1, 33, 49, 56, 0, 245, 1, 18, 14, 81, 40, 64, 44, 184, 128, 72, 75, 143, 17, 16, 19,
    32, 227, 98, 44, 228, 132, 212, 132, 136, 79, 17, 2, 16, 133, 68, 133, 66, 11, 12, 131, 70, 212, 2, 212,
    19, 17, 18, 16, 4, 66, 30, 85, 11, 46, 195, 131, 16, 186, 78, 32, 220, 132, 1, 35, 141, 204, 5, 227,
    33, 17, 2, 76, 228, 111, 57, 34, 19, 32, 227, 111, 44, 6, 4, 71, 35, 206, 69, 57, 17, 68, 228, 113,
    16, 35, 145, 15, 19, 150, 140, 4, 192, 188, 3, 196, 71, 49, 196, 57, 22, 50, 60, 0, 132, 145, 81, 17,
    98, 83, 145, 51, 37, 15, 60, 228, 83, 128, 36, 200, 56, 219, 133, 20, 128, 136, 0, 189, 135, 57, 33, 40,
    12, 64, 39, 0, 243, 216, 156, 64, 17, 78, 17, 18, 79, 49, 0, 50, 244, 78, 36, 64, 147, 156, 132, 225,
    1, 33, 49, 16, 244, 68, 72, 67, 83, 204, 229, 141, 189, 66, 203, 133, 68, 172, 0, 248, 209, 98, 195, 140,
    136, 4, 227, 0, 60, 78, 56, 204, 140, 32, 177, 37, 32, 66, 195, 160, 195, 192, 9, 57, 84, 52, 58, 192,
    68, 97, 35, 56, 105, 212, 24, 75, 209, 16, 240, 17, 18, 67, 85, 33, 19, 141, 48, 67, 83, 0, 187, 209,
    56, 53, 2, 18, 113, 17, 72, 66, 197, 204, 64, 2, 30, 226, 11, 201, 64, 135, 200, 132, 212, 1, 50, 14,
    55, 50, 4, 136, 228, 147, 160, 208, 212, 73, 52, 88, 200, 162, 13, 201, 52, 68, 17, 58, 12, 0, 97, 40,
    77, 33, 11, 22, 241, 206, 52, 75, 209, 32, 33, 54, 16, 4, 108, 57, 36, 242, 80, 220, 142, 56, 216, 139,
    16, 4, 111, 68, 0, 147, 32, 33, 47, 32, 64, 132, 216, 2, 19, 196, 64, 132, 53, 58, 12, 60, 228, 83,
    0, 212, 239, 68, 224, 212, 9, 58, 196, 21, 61, 128, 44, 188, 132, 68, 129, 18, 180, 69, 146, 200, 112, 17,
    18, 195, 149, 32, 74, 136, 14, 211, 145, 200, 131, 15, 45, 141, 136, 20, 75, 141, 76, 232, 128, 76, 33, 236,
    97, 33, 11, 22, 82, 13, 18, 35, 140, 61, 68, 196, 71, 35, 141, 26, 4, 211, 16, 212, 200, 56, 216, 209,
    1, 105, 72, 44, 204, 68, 61, 64, 75, 32, 32, 13, 200, 64, 148, 68, 132, 216, 200, 35, 145, 19, 49, 18,
    79, 36, 206, 8, 171, 206, 72, 132, 200, 84, 72, 128, 81, 33, 34, 16, 212, 212, 69, 141, 136, 52, 51, 150,
    176, 67, 14, 69, 137, 23, 33, 36, 235, 33, 36, 196, 55, 36, 209, 0, 129, 135, 78, 37, 11, 77, 68, 68,
    132, 130, 203, 32, 227, 101, 57, 19, 4, 70, 49, 2, 33, 34, 14, 54, 67, 68, 68, 102, 44, 57, 81, 50,
    80, 195, 4, 71, 99, 141, 12, 68, 113, 16, 176, 19, 18, 5, 64, 32, 176, 1, 44, 74, 200, 52, 74, 200,
    40, 66, 216, 185, 68, 210, 32, 49, 50, 28, 228, 242, 28, 228, 83, 136, 229, 13, 77, 22, 49, 56, 177, 32,
    68, 64, 50, 32, 209, 139, 19, 21, 11, 18, 48, 20, 24, 116, 196, 70, 192, 17, 40, 68, 232, 52, 50, 2,
    1, 49, 47, 68, 68, 132, 53, 58, 192, 52, 56, 128, 48, 240, 8, 24, 219, 0, 76, 68, 72, 0, 187, 206,
    61, 66, 192, 76, 131, 141, 144, 35, 141, 56, 198, 44, 16, 50, 2, 0, 185, 206, 72, 242, 19, 0, 184, 135,
    81, 16, 135, 153, 19, 148, 52, 60, 199, 57, 68, 128, 52, 56, 20, 76, 115, 145, 33, 54, 40, 53, 36, 196,
    0, 60, 68, 8, 67, 83, 45, 137, 84, 77, 68, 68, 217, 19, 141, 26, 131, 85, 56, 181, 68, 172, 129, 68,
    156, 66, 6, 29, 58, 13, 9, 17, 0, 72, 76, 72, 24, 116, 225, 0, 210, 162, 80, 180, 212, 68, 2, 226,
    17, 20, 192, 32, 210, 216, 216, 68, 147, 145, 113, 2, 81, 50, 21, 18, 19, 128, 68, 60, 132, 16, 170, 206,
    52, 107, 133, 20, 128, 132, 71, 36, 192, 76, 67, 4, 53, 60, 68, 73, 56, 64, 98, 49, 0, 47, 99, 145,
    40, 68, 113, 17, 35, 148, 68, 33, 51, 29, 19, 150, 148, 228, 86, 1, 16, 239, 56, 178, 2, 99, 32, 136,
    16, 208, 132, 145, 129, 18, 132, 64, 232, 76, 67, 54, 16, 3, 206, 54, 82, 11, 46, 242, 192, 54, 194, 11,
    33, 48, 17, 98, 101, 13, 156, 228, 231, 16, 4, 224, 12, 52, 68, 73, 40, 142, 44, 57, 78, 9, 68, 165,
    57, 17, 8, 24, 220, 209, 16, 4, 204, 16, 212, 225, 44, 227, 131, 208, 243, 141, 136, 229, 17, 72, 76, 199,
    33, 16, 246, 1, 48, 135, 128, 81, 68, 9, 57, 0, 68, 182, 50, 76, 228, 68, 204, 117, 18, 200, 229, 13,
    14, 69, 68, 69, 133, 135, 17, 17, 33, 0, 22, 32, 12, 194, 13, 33, 36, 209, 1, 50, 14, 54, 195, 148,
    76, 123, 192, 24, 73, 13, 76, 68, 111, 68, 224, 64, 4, 182, 47, 56, 131, 83, 200, 64, 19, 180, 4, 212,
    68, 2, 241, 0, 33, 37, 1, 24, 135, 0, 178, 196, 52, 97, 47, 1, 36, 160, 60, 242, 216, 176, 2, 11,
    209, 37, 0, 44, 182, 44, 33, 124, 206, 80, 97, 226, 44, 64, 17, 45, 137, 145, 57, 105, 64, 9, 51, 145,
    201, 48, 19, 18, 179, 130, 0, 185, 148, 98, 64, 18, 79, 32, 21, 19, 35, 148, 76, 124, 130, 16, 209, 44,
    57, 49, 196, 70, 32, 17, 16, 68, 112, 80, 128, 138, 45, 136, 132, 53, 52, 64, 46, 80, 2, 18, 128, 132,
    128, 19, 149, 18, 17, 24, 56, 208, 239, 32, 36, 212, 68, 75, 68, 77, 99, 145, 42, 192, 13, 0, 97, 12,
    16, 212, 232, 52, 50, 21, 32, 53, 0, 46, 80, 13, 200, 134, 68, 200, 241, 4, 14, 21, 18, 99, 33, 17,
    32, 229, 18, 184, 32, 148, 70, 0, 195, 196, 64, 3, 99, 34, 6, 54, 35, 139, 44, 64, 147, 32, 227, 107,
    33, 36, 224, 60, 244, 78, 0, 33, 226, 28, 4, 70, 19, 5, 0, 44, 132, 216, 189, 17, 18, 73, 68, 68,
    212, 228, 196, 180, 228, 196, 188, 4, 83, 196, 64, 11, 216, 64, 98, 81, 20, 68, 53, 56, 196, 76, 68, 76,
    32, 209, 51, 69, 65, 50, 0, 61, 135, 1, 49, 21, 17, 24, 81, 16, 2, 182, 57, 20, 88, 137, 67, 239,
    1, 20, 200, 9, 66, 192, 68, 182, 32, 48, 229, 13, 78, 0, 72, 44, 132, 216, 144, 4, 241, 16, 35, 134,
    52, 134, 68, 200, 132, 226, 28, 4, 64, 9, 49, 17, 200, 227, 4, 4, 224, 216, 172, 228, 146, 140, 65, 145,
    16, 73, 5, 20, 64, 147, 129, 52, 192, 8, 172, 147, 0, 81, 108, 32, 48, 203, 19, 49, 11, 17, 82, 18,
    32, 227, 118, 29, 138, 196, 24, 2, 226, 0, 242, 19, 0, 188, 209, 0, 49, 36, 44, 64, 147, 32, 227, 100,
    84, 68, 88, 4, 224, 216, 141, 19, 143, 176, 2, 78, 71, 82, 4, 91, 36, 192, 52, 48, 17, 14, 18, 11,
    46, 67, 15, 44, 230, 4, 18, 50, 18, 9, 68, 146, 32, 227, 110, 60, 243, 145, 77, 67, 72, 77, 136, 13,
    0, 182, 18, 33, 44, 196, 55, 37, 6, 24, 68, 147, 172, 5, 152, 17, 25, 212, 72, 16, 13, 15, 33, 2,
    76, 131, 141, 132, 64, 142, 48, 76, 138, 32, 178, 242, 33, 36, 196, 71, 36, 216, 44, 72, 145, 32, 193, 47,
    68, 225, 145, 0, 200, 142, 48, 240, 17, 18, 32, 15, 176, 132, 146, 132, 0, 242, 57, 20, 243, 68, 2, 13,
    32, 209, 164, 1, 38, 45, 16, 4, 113, 16, 98, 14, 55, 36, 209, 1, 49, 6, 98, 245, 17, 60, 228, 132,
    188, 68, 69, 57, 19, 51, 16, 33, 205, 56, 179, 134, 98, 64, 142, 52, 227, 8, 10, 21, 3, 24, 68, 228,
    92, 3, 15, 44, 72, 135, 16, 34, 164, 53, 82, 17, 56, 211, 4, 53, 58, 196, 26, 48, 17, 43, 49, 17,
    51, 16, 19, 28, 68, 107, 1, 65, 135, 153, 65, 18, 74, 32, 17, 172, 229, 132, 70, 112, 13, 26, 240, 18,
    79, 35, 130, 32, 2, 229, 57, 17, 132, 78, 117, 13, 13, 17, 3, 196, 67, 14, 84, 75, 0, 52, 1, 132,
    70, 67, 73, 57, 137, 23, 0, 36, 203, 98, 50, 4, 148, 131, 64, 46, 192, 24, 4, 73, 196, 0, 180, 199,
    148, 179, 142, 70, 33, 192, 52, 97, 43, 1, 139, 206, 57, 25, 84, 54, 68, 147, 0, 18, 200, 72, 124, 209,
    32, 2, 242, 61, 18, 13, 26, 50, 13, 52, 68, 97, 32, 108, 199, 0, 210, 175, 68, 228, 196, 9, 56, 21,
    56, 128, 232, 48, 1, 136, 52, 76, 206, 52, 129, 135, 79, 36, 192, 70, 4, 76, 148, 131, 72, 72, 123, 20,
    72, 128, 174, 88, 209, 17, 137, 22, 32, 69, 59, 209, 33, 80, 19, 18, 228, 199, 17, 20, 178, 32, 195, 203,
    18, 243, 143, 80, 176, 17, 196, 65, 75, 16, 36, 228, 72, 241, 2, 32, 2, 203, 99, 35, 0, 44, 186, 200,
    24, 116, 236, 17, 36, 128, 24, 76, 147, 16, 250, 132, 98, 241, 0, 8, 75, 209, 56, 100, 68, 73, 40, 64,
    55, 34, 3, 18, 100, 68, 1, 57, 72, 94, 131, 83, 17, 21, 72, 17, 107, 0, 52, 1, 132, 180, 4, 200,
    56, 208, 11, 148, 132, 135, 172, 228, 132, 136, 3, 4, 68, 8, 200, 72, 37, 18, 74, 68, 20, 0, 189, 132,
    32, 97, 211, 188, 68, 69, 57, 19, 0, 52, 33, 50, 17, 81, 13, 216, 4, 196, 70, 244, 78, 13, 64, 147,
    32, 227, 111, 17, 20, 142, 52, 2, 226, 16, 178, 239, 57, 97, 17, 145, 81, 13, 32, 209, 162, 56, 179, 145,
    160, 212, 136, 12, 72, 64, 71, 67, 72, 78, 177, 18, 74, 0, 212, 45, 61, 136, 12, 76, 64, 52, 97, 44,
    16, 212, 200, 56, 216, 196, 16, 249, 3, 24, 76, 147, 68, 227, 70, 156, 4, 67, 205, 19, 148, 4, 177, 45,
    16, 33, 18, 72, 4, 88, 200, 1, 68, 136, 227, 12, 56, 217, 68, 1, 25, 64, 48, 130, 216, 200, 64, 35,
    68, 64, 12, 136, 227, 69, 17, 17, 13, 8, 76, 68, 60, 182, 47, 68, 227, 196, 69, 54, 44, 16, 68, 200,
    52, 104, 11, 88, 6, 18, 201, 53, 5, 22, 1, 132, 52, 38, 35, 16, 4, 199, 153, 19, 150, 76, 124, 132,
    44, 188, 142, 44, 50, 4, 70, 0, 147, 156, 64, 21, 99, 97, 19, 132, 1, 172, 1, 20, 72, 0, 97, 35,
    16, 0, 242, 32, 209, 177, 33, 33, 35, 16, 32, 3, 19, 97, 206, 50, 82, 6, 81, 17, 47, 56, 178, 2,
    18, 19, 131, 98, 192, 2, 28, 131, 68, 136, 4, 196, 24, 228, 88, 128, 113, 0, 14, 84, 78, 53, 56, 128,
    68, 75, 145, 12, 68, 113, 16, 2, 200, 77, 139, 192, 69, 51, 68, 71, 128, 17, 14, 17, 0, 79, 82, 14,
    44, 67, 66, 19, 51, 147, 0, 184, 196, 20, 67, 82, 19, 100, 72, 76, 72, 142, 53, 37, 12, 17, 24, 132,
    53, 49, 17, 153, 19, 148, 63, 49, 206, 80, 97, 211, 176, 224, 196, 68, 220, 192, 72, 168, 142, 0, 33, 241,
    16, 4, 142, 54, 1, 132, 148, 131, 70, 17, 28, 143, 16, 34, 5, 32, 40, 142, 52, 209, 2, 76, 131, 141,
    216, 132, 135, 196, 68, 143, 56, 212, 132, 189, 17, 19, 77, 139, 14, 84, 67, 4, 53, 56, 128, 68, 58, 206,
    26, 241, 13, 201, 67, 51, 68, 65, 36, 53, 50, 17, 18, 34, 19, 33, 145, 13, 204, 116, 78, 80, 97, 206,
    81, 59, 196, 79, 34, 12, 32, 176, 17, 212, 128, 147, 32, 203, 68, 89, 35, 192, 60, 68, 115, 29, 17, 0,
    78, 34, 192, 73, 44, 135, 0, 161, 50, 57, 68, 66, 18, 0, 130, 57, 67, 83, 188, 2, 13, 148, 2, 203,
    196, 128, 135, 188, 228, 146, 32, 18, 196, 128, 32, 132, 61, 60, 142, 44, 128, 243, 68, 5, 68, 47, 48, 11,
    43, 34, 152, 137, 17, 0, 76, 75, 78, 52, 75, 203, 16, 212, 216, 188, 68, 72, 56, 56, 196, 20, 131, 68,
    180, 228, 76, 0, 188, 68, 84, 64, 11, 141, 18, 13, 42, 5, 19, 28, 228, 114, 17, 21, 68, 180, 3, 4,
    176, 227, 4, 53, 56, 6, 16, 212, 227, 56, 37, 12, 16, 212, 224, 9, 50, 21, 33, 54, 32, 53, 133, 128,
    98, 1, 81, 0, 128, 243, 96, 241, 32, 9, 50, 21, 19, 52, 64, 32, 218, 13, 76, 68, 68, 73, 50, 13,
    27, 16, 3, 32, 232, 192, 52, 97, 17, 152, 67, 68, 68, 4, 200, 56, 218, 196, 0, 88, 142, 61, 139, 0,
    76, 33, 226, 44, 2, 12, 128, 214, 14, 52, 76, 142, 21, 53, 128, 68, 75, 192, 69, 54, 35, 17, 82, 2,
    18, 35, 131, 18, 176, 13, 25, 64, 6, 18, 178, 13, 42, 115, 150, 17, 81, 17, 136, 227, 69, 33, 19, 34,
    56, 195, 4, 53, 56, 136, 77, 136, 13, 97, 97, 196, 68, 76, 142, 48, 69, 135, 17, 17, 35, 16, 16, 19,
    18, 52, 72, 84, 73, 200, 24, 113, 17, 132, 64, 20, 76, 129, 84, 46, 227, 75, 32, 209, 54, 56, 192, 13,
    189, 18, 14, 68, 132, 216, 205, 16, 3, 33, 50, 14, 52, 2, 229, 57, 68, 101, 32, 208, 13, 8, 128, 11,
    121, 231, 158 >>

\* unpackDictionary32, lines 814-838: every 3 bytes of dict hold 4 symbols of 6
\* bits.  unpackSlot is what symbol k writes to buf first (a space, if bit 5
\* starts a word) and second (its letter, unless it is padding above 26); -1
\* stands for nothing written.
unpackSlot(dict, k, second) ==
  LET g == k \div 4
      val == (dict[3 * g + 1] * 65536) + (dict[3 * g + 2] * 256) + dict[3 * g + 3]
      c == (val \div (2 ^ (18 - 6 * (k % 4)))) % 64
  IN  IF second THEN (IF c % 32 <= 26 THEN (c % 32) + 97 ELSE -1)
      ELSE (IF c >= 32 THEN 32 ELSE -1)

TC_IsWritten(x) == x # -1

\* unpackDictionary32: buf[1 : d+1], where buf[d] is the final space.
unpackDictionary32(dict) ==
  Tail(SelectSeq([ j \in 1..(8 * (Len(dict) \div 3)) |->
                     unpackSlot(dict, (j - 1) \div 2, j % 2 = 0) ],
                 TC_IsWritten)
         \o <<32>>)

\* createDictionary, lines 772-787: the first index of the run of letters that
\* ends before index i of words (1-based), which is the loop's anchor at i.
RECURSIVE TC_Anchor(_, _)
TC_Anchor(words, i) ==
  IF i = 1 \/ ~ isText(words[i - 1]) THEN i ELSE TC_Anchor(words, i - 1)

TC_IsWord(w) == w # <<>>

\* createDictionary, lines 772-787: the words the loop meets, each as
\* <<anchor, i>>: a run of at least one letter closed by a delimiter at i.
TC_WordsIn(words) ==
  SelectSeq([ i \in 1..Len(words) |->
                IF ~ isText(words[i]) /\ isDelimiter(words[i]) /\ i >= TC_Anchor(words, i) + 1
                THEN <<TC_Anchor(words, i), i>>
                ELSE <<>> ],
            TC_IsWord)

\* createDictionary with startWord = 0: one entry [hash, data, ptr] of
\* dictEntry for each of the first maxWords words of found; data is
\* (length << 24) | index.
createDictionary(words, found, maxWords) ==
  [ k \in 1..(IF Len(found) < maxWords THEN Len(found) ELSE maxWords) |->
      [ hash |-> TC_HashFrom(TC_HASH1, words, found[k][1], found[k][2] - 1),
        data |-> ((found[k][2] - found[k][1]) * 16777216) + (k - 1),
        ptr  |-> SubSeq(words, found[k][1], found[k][2] - 1) ] ]

\* The package's static dictionary and its number of words (lines 81-82).
TC_UNPACKED_DICT == unpackDictionary32(TC_DICT_EN_1024)
TC_UNPACKED_WORDS == TC_WordsIn(TC_UNPACKED_DICT)
TC_STATIC_DICTIONARY == createDictionary(TC_UNPACKED_DICT, TC_UNPACKED_WORDS, 1024)
TC_STATIC_DICT_WORDS == Len(TC_STATIC_DICTIONARY)

\* The number of positions of block holding v, and the number of positions
\* holding cur whose predecessor is prv (the first byte's predecessor is 0).
TC_Freq0(blk, v) == Cardinality({i \in 1..Len(blk) : blk[i] = v})
TC_Freq1(blk, prv, cur) ==
  Cardinality({ i \in 1..Len(blk) :
                  blk[i] = cur /\ (IF i = 1 THEN 0 ELSE blk[i - 1]) = prv })

\* Every '&' of the block, whatever follows it.
TC_Ampersands_Any(blk) == TC_Freq0(blk, 38)

\* computeStats, line 678: the number of '&' followed by 'a', 'g', 'l' or 'q'.
TC_Ampersands(blk) ==
  TC_Freq1(blk, 38, 97) + TC_Freq1(blk, 38, 103)
    + TC_Freq1(blk, 38, 108) + TC_Freq1(blk, 38, 113)

\* computeStats: the 8-bit status of a block.
computeStats(blk) ==
  LET length == Len(blk)
      nbTextChars == Cardinality({i \in 1..length : isText(blk[i])})
      nbBinChars == Cardinality({i \in 1..length : blk[i] >= 128})
      ascii == IF nbBinChars = 0 THEN TC_MASK_FULL_ASCII
               ELSE IF nbBinChars <= length \div 100 THEN TC_MASK_ALMOST_FULL_ASCII
               ELSE 0
      f1 == TC_Freq0(blk, 60)
      f2 == TC_Freq0(blk, 62)
      f3 == TC_Ampersands(blk)
      minFreq == IF (length - nbBinChars) \div 512 < 2 THEN 2
                 ELSE (length - nbBinChars) \div 512
      xml == IF /\ nbBinChars <= length - (length \div 10)
                /\ f1 >= minFreq /\ f2 >= minFreq /\ f3 > 0
                /\ \/ f1 < f2 /\ f1 >= f2 - (f2 \div 100)
                   \/ f2 < f1 /\ f2 >= f1 - (f1 \div 100)
                   \/ f1 = f2
             THEN TC_MASK_XML_HTML ELSE 0
      crlf == IF /\ TC_Freq0(blk, CR) # 0
                 /\ TC_Freq0(blk, CR) = TC_Freq0(blk, LF)
                 /\ \A i \in 0..255 : i # LF => TC_Freq1(blk, CR, i) = 0
              THEN TC_MASK_CRLF ELSE 0
  IN  IF 2 * nbTextChars < length THEN TC_MASK_NOT_TEXT
      ELSE IF 4 * nbBinChars > length THEN TC_MASK_NOT_TEXT
      ELSE ascii + xml + crlf

\* The codec object of either variant.  dictMap and dictList hold the cells
\* written since the last reset (or since construction); isReset tells
\* whether reset has run, that is whether the other cells of dictMap point
\* at the static entries and the other cells of dictList are preallocated.
\* A cell of dictMap is the index of the dictList entry it points at (for a
\* static entry: of the entry reset copied), or -1 for nil.
TC_Codec(variant, log, dSize, static) ==
  [ kind |-> "Text", variant |-> variant, logHashSize |-> log,
    hashMask |-> (2 ^ log) - 1, dictSize |-> dSize, staticDictSize |-> static,
    dictMap |-> <<>>, dictList |-> <<>>, isReset |-> FALSE, isCRLF |-> FALSE ]

newTextCodec1 ==
  TC_Codec(1, TC_LOG_HASHES_SIZE, TC_THRESHOLD2 * 4, TC_STATIC_DICT_WORDS + 2)

\* newTextCodec1WithCtx and newTextCodec2WithCtx: the size of the hash map and
\* of the dictionary from the options "size" and "extra".
TC_LogOf(ctx) ==
  LET blockSize == IF "size" \in DOMAIN ctx THEN ctx["size"] ELSE 0
      log == IF blockSize >= 268435456 THEN 26
             ELSE IF blockSize >= 1024 THEN Log2(blockSize \div 4)
             ELSE 8
      extraMem == IF "extra" \in DOMAIN ctx /\ ctx["extra"] THEN 1 ELSE 0
  IN  log + extraMem
TC_DSizeOf(ctx) ==
  LET blockSize == IF "size" \in DOMAIN ctx THEN ctx["size"] ELSE 0
  IN  4096 * (2 ^ Cardinality({i \in {14, 16, 18, 20, 22, 24} : blockSize >= 2 ^ i}))
newTextCodec1WithCtx(ctx) ==
  TC_Codec(1, TC_LogOf(ctx), TC_DSizeOf(ctx), TC_STATIC_DICT_WORDS + 2)
newTextCodec2WithCtx(ctx) ==
  TC_Codec(2, TC_LogOf(ctx), TC_DSizeOf(ctx), TC_STATIC_DICT_WORDS)

NewTextCodec == newTextCodec1
NewTextCodecWithCtx(ctx) ==
  IF "textcodec" \in DOMAIN ctx /\ ctx["textcodec"] = 2
  THEN newTextCodec2WithCtx(ctx)
  ELSE newTextCodec1WithCtx(ctx)

\* The configuration maps given to NewTextCodecWithCtx.
TC_Contexts ==
  { [textcodec |-> 1], [textcodec |-> 2],
    [textcodec |-> 2, size |-> 65536, extra |-> TRUE] }

\* F applied to the value x, once x has been computed (a local variable).
With(x, F(_)) == F(x)

\* dictList[i]: a static word, one of variant 1's two special entries (at
\* nbWords and nbWords+1, staticDictSize being nbWords+2), a cell written since
\* the last reset, or an untouched cell.  ptr holds the bytes of the word,
\* which are the only bytes read through it; <<>> stands for nil.
TC_DictList(c, i) ==
  IF i >= c.staticDictSize
  THEN At(c.dictList, i, [hash |-> 0, data |-> IF c.isReset THEN i ELSE 0, ptr |-> <<>>])
  ELSE IF i >= TC_STATIC_DICT_WORDS
  THEN [ hash |-> 0, data |-> 16777216 + i,
         ptr |-> IF i = c.staticDictSize - 2 THEN <<TC_ESCAPE_TOKEN2>>
                 ELSE <<TC_ESCAPE_TOKEN1>> ]
  ELSE TC_STATIC_DICTIONARY[i + 1]

\* The greatest element of the set S of indices, -1 (nil) if there is none.
TC_Last(S) == IF S = {} THEN -1 ELSE CHOOSE i \in S : \A j \in S : j <= i

\* reset, lines 1000-1003: the cell of dictMap for slot after the static
\* entries have been inserted in order (a later entry replaces an earlier one).
TC_StaticMap(c, slot) ==
  TC_Last({ i \in 0..(c.staticDictSize - 1) :
              TC_DictList(c, i).hash % (c.hashMask + 1) = slot })

\* dictMap[h & hashMask]
TC_DictMap(c, h) ==
  LET slot == h % (c.hashMask + 1)
  IN  At(c.dictMap, slot, IF c.isReset THEN TC_StaticMap(c, slot) ELSE -1)

\* reset: dictMap holds the static entries only, the dynamic entries are
\* preallocated.
TC_Reset(c) == [c EXCEPT !.dictMap = <<>>, !.dictList = <<>>, !.isReset = TRUE]

\* Forward, lines 1090-1096: the entry dictMap gives for hash h if its hash and its
\* length are those of the word, else nil.
TC_Lookup(c, h, length) ==
  With(TC_DictMap(c, h), LAMBDA p :
    IF p = -1 THEN -1
    ELSE With(TC_DictList(c, p), LAMBDA pe :
           IF pe.hash # h \/ pe.data \div 16777216 # length THEN -1 ELSE p))

\* sameWords(pe.ptr[1:length], word[1:]) for the entry at index p
TC_SameWords(c, p, word) ==
  \A i \in 2..Len(word) : TC_DictList(c, p).ptr[i] = word[i]

\* Variant of TC_AddWord whose index goes back to the start of the list.
TC_AddWord_WrapToZero(c, words, word, h1) ==
  IF ~ ( /\ Len(word) > 3 \/ (Len(word) > 2 /\ words < TC_THRESHOLD2)
         /\ Len(word) < TC_MAX_WORD_LENGTH )
  THEN [codec |-> c, words |-> words]
  ELSE With(TC_DictList(c, words), LAMBDA pe :
       With(IF pe.data % 16777216 >= c.staticDictSize
            THEN [ c EXCEPT !.dictMap = Put(Put(c.dictMap, pe.hash % (c.hashMask + 1), -1),
                                            h1 % (c.hashMask + 1), words),
                            !.dictList = Put(c.dictList, words,
                                             [ hash |-> h1,
                                               data |-> (Len(word) * 16777216) + words,
                                               ptr |-> word ]) ]
            ELSE [c EXCEPT !.dictMap = Put(c.dictMap, h1 % (c.hashMask + 1), words)],
            LAMBDA c1 :
         IF words + 1 < c.dictSize
         THEN [codec |-> c1, words |-> words + 1]
         ELSE IF c.dictSize >= TC_MAX_DICT_SIZE
         THEN [codec |-> c1, words |-> 0]
         ELSE [codec |-> [c1 EXCEPT !.dictSize = 2 * @], words |-> words + 1]))


\* Forward, lines 1112-1135: the word (of hash h1) is not in the dictionary; it takes
\* the entry at index words if it is long enough.  The result is the codec and
\* the next value of words.
TC_AddWord(c, words, word, h1) ==
  IF ~ ( /\ Len(word) > 3 \/ (Len(word) > 2 /\ words < TC_THRESHOLD2)
         /\ Len(word) < TC_MAX_WORD_LENGTH )
  THEN [codec |-> c, words |-> words]
  ELSE With(TC_DictList(c, words), LAMBDA pe :
       With(IF pe.data % 16777216 >= c.staticDictSize
            THEN [ c EXCEPT !.dictMap = Put(Put(c.dictMap, pe.hash % (c.hashMask + 1), -1),
                                            h1 % (c.hashMask + 1), words),
                            !.dictList = Put(c.dictList, words,
                                             [ hash |-> h1,
                                               data |-> (Len(word) * 16777216) + words,
                                               ptr |-> word ]) ]
            ELSE [c EXCEPT !.dictMap = Put(c.dictMap, h1 % (c.hashMask + 1), words)],
            LAMBDA c1 :
         IF words + 1 < c.dictSize
         THEN [codec |-> c1, words |-> words + 1]
         ELSE IF c.dictSize >= TC_MAX_DICT_SIZE
         THEN [codec |-> c1, words |-> c.staticDictSize]
         ELSE [codec |-> [c1 EXCEPT !.dictSize = 2 * @], words |-> words + 1]))
\* emitWordIndex1: the index as 1, 2 or 3 bytes (5 + 7 + 7 bits).
emitWordIndex1(val) ==
  IF val >= TC_THRESHOLD2
  THEN << (224 + (val \div 16384)) % 256, (128 + ((val \div 128) % 128)) % 256, val % 128 >>
  ELSE IF val >= TC_THRESHOLD1
  THEN << (128 + (val \div 128)) % 256, val % 128 >>
  ELSE << val >>

\* emitWordIndex2: the index as 1, 2 or 3 bytes; mask is 32 to toggle the case
\* of the first letter.
emitWordIndex2(val, mask) ==
  IF val >= TC_THRESHOLD4
  THEN << 192 + mask + ((val \div 16384) % 32), 128 + ((val \div 128) % 128), val % 128 >>
  ELSE IF val >= TC_THRESHOLD3
  THEN << 192 + mask + ((val \div 128) % 32), val % 128 >>
  ELSE << 128 + mask + val >>

\* textCodec1.emitSymbols from src[i] on (1-based), out being what has been
\* written to dst, of dstEnd bytes: the number of bytes written, or -1.
RECURSIVE TC_EmitSymbols1(_, _, _, _, _)
TC_EmitSymbols1(c, src, i, out, dstEnd) ==
  IF i > Len(src) THEN [dIdx |-> Len(out), bytes |-> out]
  ELSE IF Len(out) >= dstEnd THEN [dIdx |-> -1, bytes |-> out]
  ELSE IF src[i] \in {TC_ESCAPE_TOKEN1, TC_ESCAPE_TOKEN2}
  THEN LET idx == IF src[i] = TC_ESCAPE_TOKEN1 THEN c.staticDictSize - 1
                  ELSE c.staticDictSize - 2
           lenIdx == IF idx >= TC_THRESHOLD2 THEN 3
                     ELSE IF idx < TC_THRESHOLD1 THEN 1 ELSE 2
       IN  IF Len(out) + 1 + lenIdx >= dstEnd
           THEN [dIdx |-> -1, bytes |-> out \o <<TC_ESCAPE_TOKEN1>>]
           ELSE TC_EmitSymbols1(c, src, i + 1,
                                out \o <<TC_ESCAPE_TOKEN1>> \o emitWordIndex1(idx), dstEnd)
  ELSE IF src[i] = CR /\ c.isCRLF
  THEN TC_EmitSymbols1(c, src, i + 1, out, dstEnd)
  ELSE TC_EmitSymbols1(c, src, i + 1, out \o <<src[i]>>, dstEnd)

\* textCodec2.emitSymbols; checked is FALSE in the branch taken when
\* 2*len(src) < len(dst), which writes without looking at the room left.
RECURSIVE TC_EmitSymbols2(_, _, _, _, _, _)
TC_EmitSymbols2(c, src, i, out, dstEnd, checked) ==
  IF i > Len(src) THEN [dIdx |-> Len(out), bytes |-> out]
  ELSE IF src[i] = TC_ESCAPE_TOKEN1
  THEN IF checked /\ Len(out) + 1 >= dstEnd
       THEN [dIdx |-> -1, bytes |-> out]
       ELSE TC_EmitSymbols2(c, src, i + 1,
                            out \o <<TC_ESCAPE_TOKEN1, TC_ESCAPE_TOKEN1>>, dstEnd, checked)
  ELSE IF src[i] = CR
  THEN IF c.isCRLF THEN TC_EmitSymbols2(c, src, i + 1, out, dstEnd, checked)
       ELSE IF checked /\ Len(out) >= dstEnd THEN [dIdx |-> -1, bytes |-> out]
       ELSE TC_EmitSymbols2(c, src, i + 1, out \o <<CR>>, dstEnd, checked)
  ELSE LET esc == IF src[i] >= 128 THEN <<TC_ESCAPE_TOKEN1>> ELSE <<>>
       IN  IF checked /\ Len(out) + Len(esc) >= dstEnd
           THEN [ dIdx |-> -1,
                  bytes |-> IF Len(out) >= dstEnd THEN out ELSE out \o esc ]
           ELSE TC_EmitSymbols2(c, src, i + 1, out \o esc \o <<src[i]>>, dstEnd, checked)

\* this.emitSymbols(src, dst) of the codec's variant, dst having dstLen bytes.
TC_EmitSymbols(c, src, dstLen) ==
  IF c.variant = 1 THEN TC_EmitSymbols1(c, src, 1, <<>>, dstLen)
  ELSE TC_EmitSymbols2(c, src, 1, <<>>, dstLen, ~ (2 * Len(src) < dstLen))

\* MaxEncodedLen of both variants
TC_MaxEncodedLen(srcLen) == srcLen

\* The blocks given to Forward: up to TC_MaxTokens pieces, each a word of the
\* static dictionary followed by a space (as it is and capitalised), a word
\* that is not in it, an end of line byte, an escape token or a byte
\* above 127.
TC_MaxTokens == 3
TC_Tokens ==
  { <<116, 104, 101, 32>>, <<84, 104, 101, 32>>, <<97, 98, 99, 100, 32>>,
    <<LF>>, <<CR>>, <<TC_ESCAPE_TOKEN1>>, <<233>> }
RECURSIVE TC_BlocksOf(_)
TC_BlocksOf(n) ==
  IF n = 0 THEN {<<>>}
  ELSE TC_BlocksOf(n - 1) \cup { b \o t : b \in TC_BlocksOf(n - 1), t \in TC_Tokens }
TC_Blocks == TC_BlocksOf(TC_MaxTokens)

\* The block "<html><body>hello & goodbye</body></html>".
TC_Example ==
  << 60, 104, 116, 109, 108, 62, 60, 98, 111, 100, 121, 62, 104, 101, 108, 108,
     111, 32, 38, 32, 103, 111, 111, 100, 98, 121, 101, 60, 47, 98, 111, 100, 121,
     62, 60, 47, 104, 116, 109, 108, 62 >>

InitText ==
  /\ NoPredictor
  /\ codec \in {NewTextCodec} \cup {NewTextCodecWithCtx(ctx) : ctx \in TC_Contexts}
  /\ block \in TC_Blocks \cup {TC_Example}
  /\ encoded = <<>>
  /\ decoded = <<>>
  /\ loc = <<>>
  /\ pc = "Forward"
  /\ ret = [fwd |-> NotReturned, inv |-> NotReturned]

\* A status test that only looks at the share of bytes above 127.
TC_NotText_BinaryOnly(blk) ==
  4 * Cardinality({i \in 1..Len(blk) : blk[i] >= 128}) > Len(blk)

\* Forward, lines 1018-1026: the block is not text.
TC_NotText(blk) == computeStats(blk) \div TC_MASK_NOT_TEXT = 1

\* TextCodec.Forward and the variant's Forward up to its main loop (lines
\* 874-891 and 1011-1054).  dst has MaxEncodedLen(len(src)) bytes.
TC_ForwardBegin ==
  /\ pc = "Forward"
  /\ IF Len(block) = 0
     THEN /\ ret' = [ret EXCEPT !.fwd = Returned(0, 0, Nil)]
          /\ pc' = "Inverse"
          /\ UNCHANGED <<codec, encoded, loc>>
     ELSE IF TC_NotText(block)
     THEN /\ ret' = [ret EXCEPT !.fwd = Returned(0, 0, "Input is not text, skipping")]
          /\ pc' = "Inverse"
          /\ UNCHANGED <<codec, encoded, loc>>
     ELSE LET mode == computeStats(block)
              spaces == CHOOSE k \in 0..Len(block) :
                          /\ \A i \in 1..k : block[i] = 32
                          /\ k < Len(block) => block[k + 1] # 32
          IN  /\ codec' = [TC_Reset(codec) EXCEPT !.isCRLF = (mode % 2 = 1)]
              /\ encoded' = <<mode>> \o Copies(32, spaces)
              /\ loc' = [ srcIdx |-> spaces, dstIdx |-> 1 + spaces,
                          emitAnchor |-> spaces,
                          delimAnchor |-> IF isText(Byte(block, spaces))
                                          THEN spaces - 1 ELSE spaces,
                          words |-> codec.staticDictSize, err |-> Nil ]
              /\ pc' = "ForwardLoop"
              /\ UNCHANGED ret
  /\ UNCHANGED <<block, decoded>>
  /\ UNCHANGED tpaqVars


\* Forward, lines 1065-1110: the dictionary entry for the word, looked up by
\* its hash h1 and then by the hash h2 of the word with the case of its first
\* letter flipped.  pe is the entry's index or -1, first tells pe == pe1.
TC_Find(c, word) ==
  With(TC_HashFrom(TC_HASH1, word, 1, Len(word)), LAMBDA h1 :
  With(TC_Lookup(c, h1, Len(word)), LAMBDA pe1 :
  With(IF pe1 # -1 THEN pe1
       ELSE TC_Lookup(c, TC_HashFrom(TC_HashStep(TC_HASH1,
                                                 word[1] + (IF isUpperCase(word[1])
                                                            THEN 32 ELSE -32)),
                                     word, 2, Len(word)),
                      Len(word)),
       LAMBDA pe :
    [ h1 |-> h1,
      pe |-> IF pe # -1 /\ ~ TC_SameWords(c, pe, word) THEN -1 ELSE pe,
      first |-> pe1 # -1 ])))

\* Forward, lines 1136-1164 (variant 2: 1657-1685): the word found at index pe
\* is written as a reference, after the bytes pending since emitAnchor.
TC_EmitWord(c, src, l, f, dstEnd) ==
  With(IF l.emitAnchor # l.delimAnchor \/ Byte(src, l.delimAnchor) # 32
       THEN TC_EmitSymbols(c, SubSeq(src, l.emitAnchor + 1, l.delimAnchor + 1),
                           dstEnd - l.dstIdx)
       ELSE [dIdx |-> 0, bytes |-> <<>>],
       LAMBDA pending :
  With(TC_DictList(c, f.pe), LAMBDA entry :
  With(IF c.variant = 1
       THEN <<IF f.first THEN TC_ESCAPE_TOKEN1 ELSE TC_ESCAPE_TOKEN2>>
              \o emitWordIndex1(entry.data % 16777216)
       ELSE emitWordIndex2(entry.data % 16777216, IF f.first THEN 0 ELSE 32),
       LAMBDA ref :
    IF pending.dIdx < 0
    THEN [ loc |-> [l EXCEPT !.err = "Text transform failed. Output buffer too small"],
           bytes |-> <<>> ]
    ELSE IF l.dstIdx + pending.dIdx >= dstEnd - (IF c.variant = 1 THEN 4 ELSE 3)
    THEN [ loc |-> [ l EXCEPT !.dstIdx = @ + pending.dIdx,
                              !.err = "Text transform failed. Output buffer too small" ],
           bytes |-> pending.bytes ]
    ELSE [ loc |-> [ l EXCEPT !.dstIdx = @ + pending.dIdx + Len(ref),
                              !.emitAnchor = l.delimAnchor + 1 + (entry.data \div 16777216) ],
           bytes |-> pending.bytes \o ref ])))

\* Forward, lines 1056-1170: one iteration of the main loop on the state l.
\* The result is the codec, the state after the iteration and the bytes
\* written to dst.
TC_ForwardStep(c, src, l) ==
  LET cur == Byte(src, l.srcIdx)
  IN  IF isLowerCase(cur) \/ isUpperCase(cur)
      THEN [codec |-> c, loc |-> [l EXCEPT !.srcIdx = @ + 1], bytes |-> <<>>]
      ELSE IF ~ (l.srcIdx > l.delimAnchor + 2 /\ isDelimiter(cur))
      THEN [ codec |-> c, bytes |-> <<>>,
             loc |-> [l EXCEPT !.delimAnchor = l.srcIdx, !.srcIdx = @ + 1] ]
      ELSE With(SubSeq(src, l.delimAnchor + 2, l.srcIdx), LAMBDA word :
           With(TC_Find(c, word), LAMBDA f :
             IF f.pe = -1
             THEN With(TC_AddWord(c, l.words, word, f.h1), LAMBDA a :
                    [ codec |-> a.codec, bytes |-> <<>>,
                      loc |-> [ l EXCEPT !.words = a.words, !.delimAnchor = l.srcIdx,
                                         !.srcIdx = @ + 1 ] ])
             ELSE With(TC_EmitWord(c, src, l, f, TC_MaxEncodedLen(Len(src))), LAMBDA e :
                    [ codec |-> c, bytes |-> e.bytes,
                      loc |-> IF e.loc.err # Nil THEN e.loc
                              ELSE [ e.loc EXCEPT !.delimAnchor = l.srcIdx,
                                                  !.srcIdx = @ + 1 ] ])))

\* Forward: one iteration of the main loop.
TC_ForwardLoop ==
  /\ pc = "ForwardLoop"
  /\ loc.err = Nil
  /\ loc.srcIdx < Len(block)
  /\ \E s \in {TC_ForwardStep(codec, block, loc)} :
       /\ codec' = s.codec
       /\ loc' = s.loc
       /\ encoded' = encoded \o s.bytes
  /\ UNCHANGED <<block, decoded, pc, ret>>
  /\ UNCHANGED tpaqVars

\* Forward, lines 1172-1187: the last symbols are written and Forward returns.
TC_ForwardEnd ==
  /\ pc = "ForwardLoop"
  /\ loc.err # Nil \/ loc.srcIdx >= Len(block)
  /\ IF loc.err # Nil
     THEN /\ ret' = [ret EXCEPT !.fwd = Returned(loc.srcIdx, loc.dstIdx, loc.err)]
          /\ UNCHANGED <<encoded, loc>>
     ELSE \E e \in { TC_EmitSymbols(codec, SubSeq(block, loc.emitAnchor + 1, Len(block)),
                                    TC_MaxEncodedLen(Len(block)) - loc.dstIdx) } :
            IF e.dIdx < 0
            THEN /\ ret' = [ ret EXCEPT !.fwd =
                               Returned(loc.srcIdx, loc.dstIdx,
                                        "Text transform failed. Output buffer too small") ]
                 /\ UNCHANGED <<encoded, loc>>
            ELSE /\ encoded' = encoded \o e.bytes
                 /\ loc' = [loc EXCEPT !.dstIdx = @ + e.dIdx]
                 /\ ret' = [ ret EXCEPT !.fwd =
                               Returned(loc.srcIdx, loc.dstIdx + e.dIdx,
                                        IF loc.srcIdx # Len(block)
                                        THEN "Text transform failed. Source index"
                                        ELSE Nil) ]
  /\ pc' = "Inverse"
  /\ UNCHANGED <<codec, block, decoded>>
  /\ UNCHANGED tpaqVars

\* The destination of Inverse has up to TC_MaxSlack bytes more than the block.
TC_MaxSlack == 1

\* TextCodec.Inverse and the variant's Inverse up to its main loop (lines
\* 893-911 and 1278-1296).  src is what Forward wrote, or the bytes the caller
\* got from elsewhere when Forward has not been called; dst has the length of
\* block or up to TC_MaxSlack bytes more.
TC_InverseBegin ==
  /\ pc = "Inverse"
  /\ ret.fwd.err = Nil \/ ret.fwd = NotReturned
  /\ IF Len(encoded) = 0
     THEN /\ ret' = [ret EXCEPT !.inv = Returned(0, 0, Nil)]
          /\ pc' = "done"
          /\ UNCHANGED <<codec, loc>>
     ELSE \E slack \in 0..TC_MaxSlack :
            /\ codec' = [TC_Reset(codec) EXCEPT !.isCRLF = (Byte(encoded, 0) % 2 = 1)]
            /\ loc' = [ srcIdx |-> 1, dstIdx |-> 0,
                        delimAnchor |-> IF isText(Byte(encoded, 0)) THEN -1 ELSE 0,
                        words |-> codec.staticDictSize, wordRun |-> FALSE,
                        dstEnd |-> Len(block) + slack, stop |-> FALSE, err |-> Nil ]
            /\ pc' = "InverseLoop"
            /\ UNCHANGED ret
  /\ decoded' = <<>>
  /\ UNCHANGED <<block, encoded>>
  /\ UNCHANGED tpaqVars

\* Variant of TC_ReadIndex1 that keeps bit 7 of the first byte of a two-byte index.
TC_ReadIndex1_NoMask(src, srcIdx) ==
  LET none == [idx |-> 0, next |-> srcIdx, long |-> FALSE, panic |-> TRUE]
  IN  IF srcIdx >= Len(src) THEN none
      ELSE IF Byte(src, srcIdx) < 128
      THEN [idx |-> Byte(src, srcIdx), next |-> srcIdx + 1, long |-> FALSE, panic |-> FALSE]
      ELSE IF srcIdx + 1 >= Len(src) THEN none
      ELSE IF Byte(src, srcIdx + 1) < 128
      THEN [ idx |-> (Byte(src, srcIdx) * 128) + Byte(src, srcIdx + 1),
             next |-> srcIdx + 2, long |-> TRUE, panic |-> FALSE ]
      ELSE IF srcIdx + 2 >= Len(src) THEN none
      ELSE [ idx |-> ((((Byte(src, srcIdx) % 32) * 128) + (Byte(src, srcIdx + 1) % 128)) * 128)
                       + (Byte(src, srcIdx + 2) % 128),
             next |-> srcIdx + 3, long |-> TRUE, panic |-> FALSE ]

\* Inverse, lines 1356-1378: the word index read at srcIdx by variant 1 (after
\* the escape token) and, lines 1904-1926, by variant 2 (cur being the byte
\* with bit 7 set); long tells that the index is compared to dictSize, panic
\* that src ends before the index does.
TC_ReadIndex1(src, srcIdx) ==
  LET none == [idx |-> 0, next |-> srcIdx, long |-> FALSE, panic |-> TRUE]
  IN  IF srcIdx >= Len(src) THEN none
      ELSE IF Byte(src, srcIdx) < 128
      THEN [idx |-> Byte(src, srcIdx), next |-> srcIdx + 1, long |-> FALSE, panic |-> FALSE]
      ELSE IF srcIdx + 1 >= Len(src) THEN none
      ELSE IF Byte(src, srcIdx + 1) < 128
      THEN [ idx |-> ((Byte(src, srcIdx) % 128) * 128) + Byte(src, srcIdx + 1),
             next |-> srcIdx + 2, long |-> TRUE, panic |-> FALSE ]
      ELSE IF srcIdx + 2 >= Len(src) THEN none
      ELSE [ idx |-> ((((Byte(src, srcIdx) % 32) * 128) + (Byte(src, srcIdx + 1) % 128)) * 128)
                       + (Byte(src, srcIdx + 2) % 128),
             next |-> srcIdx + 3, long |-> TRUE, panic |-> FALSE ]
TC_ReadIndex2(src, cur, srcIdx) ==
  LET none == [idx |-> 0, next |-> srcIdx, long |-> FALSE, panic |-> TRUE]
  IN  IF (cur \div 64) % 2 = 0
      THEN [idx |-> cur % 32, next |-> srcIdx, long |-> FALSE, panic |-> FALSE]
      ELSE IF srcIdx >= Len(src) THEN none
      ELSE IF Byte(src, srcIdx) < 128
      THEN [ idx |-> ((cur % 32) * 128) + Byte(src, srcIdx),
             next |-> srcIdx + 1, long |-> TRUE, panic |-> FALSE ]
      ELSE IF srcIdx + 1 >= Len(src) THEN none
      ELSE [ idx |-> ((((cur % 32) * 128) + (Byte(src, srcIdx) % 128)) * 128)
                       + (Byte(src, srcIdx + 1) % 128),
             next |-> srcIdx + 2, long |-> TRUE, panic |-> FALSE ]

\* Variant of TC_InverseWord that inserts one slot further than Forward does.
TC_InverseWord_NextSlot(c, src, l) ==
  With(SubSeq(src, l.delimAnchor + 2, l.srcIdx), LAMBDA word :
  With(TC_HashFrom(TC_HASH1, word, 1, Len(word)), LAMBDA h1 :
  With(TC_Lookup(c, h1, Len(word)), LAMBDA pe :
    IF pe # -1 /\ TC_SameWords(c, pe, word)
    THEN [codec |-> c, words |-> l.words]
    ELSE TC_AddWord(c, l.words + 1, word, h1))))

\* Inverse, lines 1308-1352: the word that ends at srcIdx is looked up and, if
\* it is not in the dictionary, added.
TC_InverseWord(c, src, l) ==
  With(SubSeq(src, l.delimAnchor + 2, l.srcIdx), LAMBDA word :
  With(TC_HashFrom(TC_HASH1, word, 1, Len(word)), LAMBDA h1 :
  With(TC_Lookup(c, h1, Len(word)), LAMBDA pe :
    IF pe # -1 /\ TC_SameWords(c, pe, word)
    THEN [codec |-> c, words |-> l.words]
    ELSE TC_AddWord(c, l.words, word, h1))))
\* Inverse, lines 1380-1420: the word at index r.idx is written to dst; l is
\* the state after the index has been read, flip tells to toggle the case of
\* the first letter.
TC_InverseRef(c, l, r, flip) ==
  IF r.panic
  THEN [loc |-> [l EXCEPT !.srcIdx = r.next, !.err = "panic"], bytes |-> <<>>]
  ELSE IF r.long /\ r.idx >= c.dictSize
  THEN [loc |-> [l EXCEPT !.srcIdx = r.next, !.stop = TRUE], bytes |-> <<>>]
  ELSE With(TC_DictList(c, r.idx), LAMBDA pe :
         LET length == pe.data \div 16777216
             buf == pe.ptr
             sp == IF l.wordRun /\ length > 1 THEN <<32>> ELSE <<>>
         IN  IF buf = <<>> \/ l.dstIdx + length >= l.dstEnd
             THEN [ loc |-> [l EXCEPT !.srcIdx = r.next, !.err = "Invalid input data"],
                    bytes |-> <<>> ]
             ELSE [ loc |-> [ l EXCEPT !.srcIdx = r.next,
                                       !.dstIdx = @ + Len(sp) + length,
                                       !.wordRun = length > 1,
                                       !.delimAnchor = IF length > 1 THEN r.next
                                                       ELSE r.next - 1 ],
                    bytes |-> sp \o << IF ~ flip THEN buf[1]
                                       ELSE IF isUpperCase(buf[1]) THEN (buf[1] + 32) % 256
                                       ELSE (buf[1] - 32) % 256 >>
                                \o SubSeq(buf, 2, length) ])

\* Inverse, lines 1421-1432 (variant 2: 1967-1986): cur is not a word
\* reference; l is the state after srcIdx++.
TC_InverseLiteral(c, src, l, cur) ==
  LET l1 == [l EXCEPT !.wordRun = FALSE]
      out == IF c.isCRLF /\ cur = LF THEN <<CR, cur>> ELSE <<cur>>
  IN  IF c.variant = 2 /\ cur = TC_ESCAPE_TOKEN1
      THEN IF l.srcIdx >= Len(src)
           THEN [loc |-> [l EXCEPT !.err = "panic"], bytes |-> <<>>]
           ELSE [ loc |-> [ l1 EXCEPT !.srcIdx = @ + 1, !.dstIdx = @ + 1,
                                      !.delimAnchor = l.srcIdx ],
                  bytes |-> <<Byte(src, l.srcIdx)>> ]
      ELSE IF l.dstIdx + Len(out) > l.dstEnd
      THEN [ loc |-> [ l1 EXCEPT !.dstIdx = l.dstEnd, !.err = "panic",
                                 !.delimAnchor = IF c.variant = 1 THEN l.srcIdx - 1 ELSE @ ],
             bytes |-> <<CR>> ]
      ELSE [ loc |-> [l1 EXCEPT !.dstIdx = @ + Len(out), !.delimAnchor = l.srcIdx - 1],
             bytes |-> out ]

\* Inverse, lines 1298-1433: one iteration of the main loop on the state l.
\* The result is the codec, the state after the iteration and the bytes
\* written to dst.
TC_InverseStep(c, src, l) ==
  LET cur == Byte(src, l.srcIdx)
  IN  IF isText(cur)
      THEN [ codec |-> c, bytes |-> <<cur>>,
             loc |-> [l EXCEPT !.srcIdx = @ + 1, !.dstIdx = @ + 1] ]
      ELSE With(IF l.srcIdx > l.delimAnchor + 2 /\ isDelimiter(cur)
                THEN TC_InverseWord(c, src, l)
                ELSE [codec |-> c, words |-> l.words],
                LAMBDA w :
           With([l EXCEPT !.words = w.words, !.srcIdx = @ + 1], LAMBDA l1 :
           With(IF c.variant = 1
                THEN IF cur \in {TC_ESCAPE_TOKEN1, TC_ESCAPE_TOKEN2}
                     THEN TC_InverseRef(w.codec, l1, TC_ReadIndex1(src, l1.srcIdx),
                                        cur = TC_ESCAPE_TOKEN2)
                     ELSE TC_InverseLiteral(w.codec, src, l1, cur)
                ELSE IF cur >= 128
                     THEN TC_InverseRef(w.codec, l1, TC_ReadIndex2(src, cur, l1.srcIdx),
                                        (cur \div 32) % 2 = 1)
                     ELSE TC_InverseLiteral(w.codec, src, l1, cur),
                LAMBDA e :
             [codec |-> w.codec, bytes |-> e.bytes, loc |-> e.loc])))

\* Inverse: one iteration of the main loop.
TC_InverseLoop ==
  /\ pc = "InverseLoop"
  /\ loc.err = Nil /\ ~ loc.stop
  /\ loc.srcIdx < Len(encoded) /\ loc.dstIdx < loc.dstEnd
  /\ \E s \in {TC_InverseStep(codec, encoded, loc)} :
       /\ codec' = s.codec
       /\ loc' = s.loc
       /\ decoded' = decoded \o s.bytes
  /\ UNCHANGED <<block, encoded, pc, ret>>
  /\ UNCHANGED tpaqVars

\* Inverse, lines 1435-1439.
TC_InverseEnd ==
  /\ pc = "InverseLoop"
  /\ loc.err # Nil \/ loc.stop \/ loc.srcIdx >= Len(encoded) \/ loc.dstIdx >= loc.dstEnd
  /\ ret' = [ ret EXCEPT !.inv =
                Returned(loc.srcIdx, loc.dstIdx,
                         IF loc.err = Nil /\ loc.srcIdx # Len(encoded)
                         THEN "Text transform failed. Source index"
                         ELSE loc.err) ]
  /\ pc' = "done"
  /\ UNCHANGED <<codec, block, encoded, decoded, loc>>
  /\ UNCHANGED tpaqVars

NextText ==
  \/ TC_ForwardBegin
  \/ TC_ForwardLoop
  \/ TC_ForwardEnd
  \/ TC_InverseBegin
  \/ TC_InverseLoop
  \/ TC_InverseEnd

SpecText == InitText /\ [][NextText]_vars


(***************************************************************************)
(* Text codec: properties.                                                 *)
(***************************************************************************)

\* C2: for every non-empty block that computeStats takes for text and on
\* which Forward returns no error, Inverse applied to what Forward wrote, with
\* a destination of len(block) bytes or more, returns no error and writes the
\* block back byte for byte (either variant, CR and LF bytes included).
C2_TextRoundTrip ==
  (codec.kind = "Text" /\ pc = "done" /\ Len(block) > 0 /\ ret.fwd.err = Nil)
    => (ret.inv.err = Nil /\ decoded = block)

\* A block with a CR+LF end of line has made the round trip.
C2_Witness ==
  /\ codec.kind = "Text" /\ pc = "done"
  /\ ret.fwd.err = Nil /\ ret.inv.err = Nil
  /\ codec.isCRLF
  /\ \E i \in 1..(Len(block) - 1) : block[i] = CR /\ block[i + 1] = LF
  /\ decoded = block

\* The block is not text: fewer than half of its bytes are ASCII letters, or
\* more than a quarter of them are 0x80 or above.
C10_BlockIsNotText ==
  \/ 2 * Cardinality({ i \in 1..Len(block) :
                         block[i] \in (65..90) \cup (97..122) }) < Len(block)
  \/ 4 * Cardinality({i \in 1..Len(block) : block[i] >= 128}) > Len(block)

\* C10: once Forward (of either variant) has been called on a non-empty block
\* that is not text, it has returned the error "Input is not text, skipping"
\* with 0 bytes read and 0 bytes written, nothing has been written to dst, and
\* the dictionary is as the constructor left it (reset has not run).
C10_NotTextRejected ==
  (codec.kind = "Text" /\ pc # "Forward" /\ Len(block) > 0 /\ C10_BlockIsNotText)
    => /\ ret.fwd = Returned(0, 0, "Input is not text, skipping")
       /\ encoded = <<>>
       /\ ~ codec.isReset /\ codec.dictMap = <<>> /\ codec.dictList = <<>>
       /\ ret.inv = NotReturned

\* Forward has returned on a block that has letters for half of its bytes but
\* more than a quarter of bytes above 127.
C10_Witness ==
  /\ codec.kind = "Text" /\ pc = "Inverse"
  /\ C10_BlockIsNotText
  /\ 2 * Cardinality({ i \in 1..Len(block) :
                         block[i] \in (65..90) \cup (97..122) }) >= Len(block)
  /\ ret.fwd.err = "Input is not text, skipping"

(***************************************************************************)
(* Text codec: Inverse on bytes that Forward did not write.                *)
(***************************************************************************)

\* The encoded blocks given to Inverse: the status byte 0 and up to
\* TC_MaxInvTokens pieces, each a new word and a space, an escape token, a
\* small byte (a one byte index after an escape token), a word marker of
\* variant 2 that has the "more bytes" bit, the last bytes of the index
\* 65536 and the last bytes of the index 4096 of variant 1.
TC_MaxInvTokens == 3
TC_InvTokens ==
  { <<97, 98, 99, 100, 32>>, <<TC_ESCAPE_TOKEN1>>, <<TC_ESCAPE_TOKEN2>>, <<5>>,
    <<197>>, <<196, 128, 0>>, <<160, 0>> }
RECURSIVE TC_EncodedOf(_)
TC_EncodedOf(n) ==
  IF n = 0 THEN {<<0>>}
  ELSE TC_EncodedOf(n - 1) \cup { b \o t : b \in TC_EncodedOf(n - 1), t \in TC_InvTokens }
TC_Encoded == TC_EncodedOf(TC_MaxInvTokens)

\* The length of the destination given to Inverse (before the slack).
TC_InvDstLen == 8

\* Inverse is called on a fresh codec; block stands for the destination, of
\* which only the length is read.
InitTextInverse ==
  /\ NoPredictor
  /\ codec \in {NewTextCodec} \cup {NewTextCodecWithCtx(ctx) : ctx \in TC_Contexts}
  /\ block = Copies(0, TC_InvDstLen)
  /\ encoded \in TC_Encoded
  /\ decoded = <<>>
  /\ loc = <<>>
  /\ pc = "Inverse"
  /\ ret = [fwd |-> NotReturned, inv |-> NotReturned]

NextTextInverse ==
  \/ TC_InverseBegin
  \/ TC_InverseLoop
  \/ TC_InverseEnd

SpecTextInverse == InitTextInverse /\ [][NextTextInverse]_vars

\* C11: when Inverse (of either variant) has left its loop because the word
\* index it decoded is greater than or equal to dictSize, it has returned an
\* error, wherever the index is in the encoded block.
C11_IndexOutOfRangeRejected ==
  (codec.kind = "Text" /\ pc = "done" /\ loc.stop)
    => ret.inv.err \notin {Nil, "panic"}

\* An index out of range that is followed by more bytes has been rejected.
C11_Witness ==
  /\ codec.kind = "Text" /\ pc = "done" /\ loc.stop
  /\ loc.srcIdx < Len(encoded)
  /\ ret.inv.err \notin {Nil, "panic"}

\* The byte at srcIdx is the last byte of the encoded block and the loop of
\* Inverse is about to read it as an escape token or as a word marker that
\* announces more bytes.
C12_EscapeAtEnd ==
  /\ codec.kind = "Text" /\ pc = "InverseLoop"
  /\ loc.err = Nil /\ ~ loc.stop /\ loc.dstIdx < loc.dstEnd
  /\ loc.srcIdx = Len(encoded) - 1
  /\ IF codec.variant = 1
     THEN Byte(encoded, loc.srcIdx) \in {TC_ESCAPE_TOKEN1, TC_ESCAPE_TOKEN2}
     ELSE \/ Byte(encoded, loc.srcIdx) = TC_ESCAPE_TOKEN1
          \/ Byte(encoded, loc.srcIdx) >= 192

\* C12: when the encoded block ends with an escape token (variant 1: 0x0F or
\* 0x0E; variant 2: 0x0F or a word marker with the "more bytes" bit) and no
\* byte follows it, the iteration of Inverse that reads the token ends with an
\* error that Inverse returns to its caller, not with a panic.
C12_EscapeAtEndIsError ==
  [][C12_EscapeAtEnd => loc'.err \notin {Nil, "panic"}]_vars

(***************************************************************************)
(* X86Codec: the jump filter.                                              *)
(***************************************************************************)

\* The number of positions i < count - 8 of the block with an opcode 0xE8 or
\* 0xE9 at i and 0x00 or 0xFF at i + 4.
C13_JumpCount ==
  Cardinality({ i \in 0..(Len(block) - 9) :
                  /\ Byte(block, i) \in {232, 233}
                  /\ Byte(block, i + 4) \in {0, 255} })

TPAQ_Sizes == {65536, 67108864}
TPAQ_NewContexts ==
  { [isNil |-> TRUE, map |-> <<>>], [isNil |-> FALSE, map |-> <<>>] }
  \cup { [isNil |-> FALSE, map |-> [blockSize |-> b]] : b \in TPAQ_Sizes }
  \cup { [isNil |-> FALSE, map |-> [size |-> a]] : a \in TPAQ_Sizes }
  \cup { [isNil |-> FALSE, map |-> [blockSize |-> b, size |-> a]] :
           b \in TPAQ_Sizes, a \in TPAQ_Sizes }

\* The first n bits of the bytes in bytes, most significant bit first.
TPAQ_BitsOf(bytes, n) ==
  [i \in 1..n |-> (bytes[((i - 1) \div 8) + 1] \div (2 ^ (7 - ((i - 1) % 8)))) % 2]

\* The bits fed to the predictor after its construction: two short feeds; the
\* bytes 0x0A 0x61 followed by the bits 1110000; the bytes 0x81 0xB8 0x80 0x81,
\* after which the hash is that of the first byte and the bytes 0xB8 0x80 are
\* predicted, followed by the byte 0xB8 and the bits 11; and three bytes 0x00,
\* of which the third is predicted, followed by the bits 01.
TPAQ_Feeds ==
  { <<0, 1>>, <<1, 0>>, TPAQ_BitsOf(<<10, 97, 224>>, 23),
    TPAQ_BitsOf(<<129, 184, 128, 129, 184, 192>>, 42),
    TPAQ_BitsOf(<<0, 0, 0, 64>>, 26) }

InitNew ==
  /\ predictor = <<>>
  /\ calls = 0
  /\ ones = 0
  /\ bit = 0
  /\ sse = 2048
  /\ codec = <<>>
  /\ block \in TPAQ_Feeds
  /\ encoded = <<>>
  /\ decoded = <<>>
  /\ loc \in TPAQ_NewContexts
  /\ pc = "New"
  /\ ret = <<>>

\* The call of NewTPAQPredictor.
TPAQ_New ==
  /\ pc = "New"
  /\ IF TPAQ_NewPanics(loc)
     THEN pc' = "panic" /\ UNCHANGED predictor
     ELSE pc' = "Update" /\ predictor' = NewTPAQPredictor(loc)
  /\ UNCHANGED <<calls, ones, bit, sse, codec, block, encoded, decoded, loc, ret>>

\* Update(block[calls + 1]) on the predictor that was built: apm.get returns a,
\* and pr is set from it.
TPAQ_UpdateAfterNew ==
  /\ pc = "Update"
  /\ calls < Len(block)
  /\ \E u \in {UpdateMix(predictor, block[calls + 1])}, a \in ApmOut :
       /\ predictor' = [u EXCEPT !.pr = Bias(a)]
       /\ sse' = a
  /\ calls' = calls + 1
  /\ ones' = ones + block[calls + 1]
  /\ bit' = block[calls + 1]
  /\ UNCHANGED codecVars

NextNew ==
  \/ TPAQ_New
  \/ TPAQ_UpdateAfterNew

SpecNew == InitNew /\ [][NextNew]_vars

\* The option "blockSize", or the option "size", is absent from the
\* construction input.
C14_BlockSizeAbsent == loc.isNil \/ "blockSize" \notin DOMAIN loc.map
C14_SizeAbsent == loc.isNil \/ "size" \notin DOMAIN loc.map

\* C14: once NewTPAQPredictor has been called with no map, or with a map that
\* lacks "blockSize" or "size", it has returned a predictor (it has not
\* panicked), with statesSize = 2^28 if "blockSize" is absent and with
\* mixersSize = 2^12 if "size" is absent.
C14_DefaultsWhenAbsent ==
  (pc \in {"Update", "panic"} /\ (C14_BlockSizeAbsent \/ C14_SizeAbsent))
    => /\ pc = "Update"
       /\ C14_BlockSizeAbsent => predictor.statesMask = 268435455
       /\ C14_SizeAbsent => predictor.mixersMask = 4095

\* NewTPAQPredictor(nil) has returned a predictor with the default sizes.
C14_Witness ==
  /\ pc = "Update" /\ loc.isNil /\ calls = 0
  /\ predictor.statesMask = 268435455
  /\ predictor.mixersMask = 4095

(***************************************************************************)
(* RLT: the block "aaaaaaaabbbbbbbbcccccccc".                              *)
(***************************************************************************)

\* C15: once RLT.Forward has returned on the 24 bytes
\* "aaaaaaaabbbbbbbbcccccccc", it has returned no error and has written at
\* most 12 bytes.
C15_ExampleAtMost12 ==
  (codec.kind = "RLT" /\ pc \in {"Inverse", "InverseLoop", "done"} /\ block = RLT_Example)
    => (ret.fwd.err = Nil /\ ret.fwd.written <= 12)

\* C15, amended: on that block Forward returns (24, 14, nil) and has written
\* the escape symbol 0x00, the first 'a', then 'a' 0x00 4, 'b' 0x00 5 and
\* 'c' 0x00 2 for the runs, and the last three 'c' as they are.
C15_ExampleIs14 ==
  (codec.kind = "RLT" /\ pc \in {"Inverse", "InverseLoop", "done"} /\ block = RLT_Example)
    => /\ ret.fwd = Returned(24, 14, Nil)
       /\ encoded = <<0, 97, 97, 0, 4, 98, 0, 5, 99, 0, 2, 99, 99, 99>>

\* Forward and Inverse have returned on the block, and Inverse has written
\* the block back.
C15_Witness ==
  /\ codec.kind = "RLT" /\ pc = "done" /\ block = RLT_Example
  /\ ret.fwd.err = Nil /\ ret.inv.err = Nil /\ decoded = block

(***************************************************************************)
(* Text codec: the block "<html><body>hello & goodbye</body></html>".      *)
(***************************************************************************)

\* C16: once Forward (of either variant) has written the status byte of the
\* block "<html><body>hello & goodbye</body></html>", the byte has the bit
\* TC_MASK_XML_HTML, as has the result of computeStats.
C16_ExampleHasXmlFlag ==
  (codec.kind = "Text" /\ pc # "Forward" /\ block = TC_Example)
    => /\ Len(encoded) > 0
       /\ (encoded[1] \div TC_MASK_XML_HTML) % 2 = 1
       /\ (computeStats(block) \div TC_MASK_XML_HTML) % 2 = 1

\* C16, amended: on that block computeStats returns TC_MASK_FULL_ASCII alone,
\* without TC_MASK_XML_HTML (the only '&' is followed by a space), and that is
\* the status byte Forward writes.
C16_ExampleIsFullAscii ==
  (codec.kind = "Text" /\ pc # "Forward" /\ block = TC_Example)
    => /\ Len(encoded) > 0
       /\ encoded[1] = TC_MASK_FULL_ASCII
       /\ computeStats(block) = TC_MASK_FULL_ASCII
       /\ ret.fwd.err \in {Nil, "not returned"}

\* Forward and Inverse have returned on the block, and Inverse has written
\* the block back.
C16_Witness ==
  /\ codec.kind = "Text" /\ pc = "done" /\ block = TC_Example
  /\ encoded[1] = TC_MASK_FULL_ASCII
  /\ ret.fwd.err = Nil /\ ret.inv.err = Nil /\ decoded = block

\* The prediction of context k (1..7) read from the state store as it is after
\* the Update: every slot has taken its next state and every cp points at the
\* slot of the new c0.
C17_ReadAfterAll(k) == StateMap(k)[At(predictor.states, predictor.cp[k], 0) + 1]

\* The inputs p0..p6 the active mixer was given by the last Update.
C17_MixerInputs == At(predictor.mixers, predictor.mixer, TPAQMixer_init).p

\* C17: after every Update the inputs p0..p6 of the mixer are what the
\* two-phase procedure gives: all seven slots take their next state first, the
\* seven pointers are moved, and only then the seven predictions are read.
C17_TwoPhase ==
  (pc = "Update" /\ calls > 0)
    => \A k \in 1..7 : C17_MixerInputs[k] = C17_ReadAfterAll(k)

\* Two context pointers have met in one slot after an Update, and the inputs
\* are those of the two-phase procedure.
C17_Witness ==
  /\ pc = "Update" /\ calls > 0
  /\ \E j, k \in 1..7 : j < k /\ predictor.cp[j] = predictor.cp[k]
  /\ \A k \in 1..7 : C17_MixerInputs[k] = C17_ReadAfterAll(k)

\* The mixer the pointer this.mixer points at, and that mixer after
\* this.mixer.update(y).
C18_Active == At(predictor.mixers, predictor.mixer, TPAQMixer_init)
C18_Trained(y) == TPAQMixer_update(C18_Active, y)

\* C18: in every Update(bit) the mixer that is trained is the one that was
\* active before the call, the one that produced the prediction for the bit,
\* and it is trained from the inputs and the prediction it holds; the active
\* mixer changes only at a byte boundary, the mixer left behind holds exactly
\* the result of its training, and no other mixer is touched.
C18_TrainedIsPredicting ==
  [][ \E old \in {predictor.mixer}, t \in {C18_Trained(bit')} :
        \E new \in {At(predictor'.mixers, old, TPAQMixer_init)} :
          /\ new.w = t.w /\ new.skew = t.skew /\ new.learnRate = t.learnRate
          /\ predictor'.mixer # old
               => /\ predictor'.bpos = 0
                  /\ new = t
          /\ \A i \in DOMAIN predictor'.mixers \ {old, predictor'.mixer} :
               predictor'.mixers[i] = At(predictor.mixers, i, TPAQMixer_init)
    ]_vars

\* A byte boundary has switched the active mixer, and the mixer left behind
\* has been trained.
C18_Witness ==
  /\ calls >= 8 /\ predictor.bpos = 0 /\ predictor.mixer # 0
  /\ At(predictor.mixers, 0, TPAQMixer_init).learnRate < TPAQ_BEGIN_LEARN_RATE

(***************************************************************************)
(* TPAQMixer on its own: a mixer is initialised, then update(bit) and      *)
(* get(p0..p7) are called in turn, as Update does.  loc is the mixer, pc   *)
(* the method called next, calls the number of update calls made and block *)
(* the caller: the bits it may pass to update, the value it passes for     *)
(* each of the eight inputs of get, and the number of update calls it      *)
(* makes.                                                                  *)
(***************************************************************************)
Mixer_FreeUpdates == 3
Mixer_ZeroUpdates == 440
Mixer_DecayUpdates == 5892

\* The callers: one that passes any bit and inputs at the ends and the centre
\* of the range of the state maps; one that keeps passing bit 0 with the
\* largest inputs, until the prediction is 0 and the error of update is zero;
\* one that keeps passing bit 1 with the smallest inputs, whose error is never
\* zero, until the learn rate has reached its end value.
Mixer_Callers ==
  { [bits |-> {0, 1}, inputs |-> {-2047, 0, 2047}, max |-> Mixer_FreeUpdates],
    [bits |-> {0}, inputs |-> {2047}, max |-> Mixer_ZeroUpdates],
    [bits |-> {1}, inputs |-> {-2047}, max |-> Mixer_DecayUpdates] }

InitMixer ==
  /\ NoPredictor
  /\ codec = <<>>
  /\ block \in Mixer_Callers
  /\ encoded = <<>>
  /\ decoded = <<>>
  /\ loc = TPAQMixer_init
  /\ pc = "update"
  /\ ret = <<>>

\* this.mixer.update(y)
Mixer_UpdateCall ==
  /\ pc = "update"
  /\ calls < block.max
  /\ \E y \in block.bits :
       /\ loc' = TPAQMixer_update(loc, y)
       /\ bit' = y
  /\ calls' = calls + 1
  /\ pc' = "get"
  /\ UNCHANGED <<predictor, ones, sse, codec, block, encoded, decoded, ret>>

\* this.mixer.get(v, v, v, v, v, v, v, v)
Mixer_GetCall ==
  /\ pc = "get"
  /\ \E v \in block.inputs : loc' = TPAQMixer_get(loc, Copies(v, 8))
  /\ pc' = "update"
  /\ UNCHANGED <<predictor, calls, ones, bit, sse, codec, block, encoded, decoded, ret>>

NextMixer ==
  \/ Mixer_UpdateCall
  \/ Mixer_GetCall

SpecMixer == InitMixer /\ [][NextMixer]_vars

\* The error of the update call that made the step: (bit << 12) - pr.
C19_Err == (bit' * 4096) - loc.pr

\* C19: learnRate starts at 60 * 128 = 7680 and never increases; an update
\* whose error is not zero takes exactly 1 from it while it is above
\* 14 * 128 = 1792 and leaves it alone at 1792; it never goes below 1792; an
\* update whose error is zero changes neither learnRate nor skew nor a weight.
C19_LearnRateDecay ==
  [][ /\ calls = 0 => loc.learnRate = 7680
      /\ loc'.learnRate <= loc.learnRate
      /\ loc'.learnRate >= 1792
      /\ pc = "update" =>
           /\ (C19_Err # 0 /\ loc.learnRate > 1792)
                => loc'.learnRate = loc.learnRate - 1
           /\ (C19_Err # 0 /\ loc.learnRate = 1792) => loc'.learnRate = 1792
           /\ C19_Err = 0 => loc' = loc
    ]_vars

\* The learn rate has come down to 1792 and a further update with a non-zero
\* error has been made.
C19_Witness ==
  /\ codec = <<>> /\ pc = "get" /\ calls > 5888
  /\ loc.learnRate = 1792
  /\ (bit * 4096) - loc.pr # 0

\* An update with bit 0 has been made on a mixer whose prediction is 0.
C19_WitnessZeroError ==
  /\ codec = <<>> /\ pc = "get" /\ calls > 0
  /\ bit = 0 /\ loc.pr = 0 /\ loc.learnRate < 7680

\* The bias Update has added to the output of the secondary map.
C20_BiasTerm == predictor.pr - sse

C21_Expected(buffer, matchPos, bpos) ==
  (At(buffer, matchPos % TPAQ_BUFFER_SIZE, 0) + 256) \div (2 ^ (8 - bpos))

\* Bit 7 - bpos of the byte buffer[matchPos].
C21_ExpectedBit(this) ==
  (At(this.buffer, this.matchPos % TPAQ_BUFFER_SIZE, 0) \div (2 ^ (7 - this.bpos))) % 2

\* The magnitude L of the prediction for a match of length n.
C21_L(n) == IF n <= 24 THEN n ELSE 24 + ((n - 24) \div 8)

\* The input p7 the active mixer was given by the last Update.
C21_P7(this) == At(this.mixers, this.mixer, TPAQMixer_init).p[8]

\* C21: after every Update, if a match is alive then c0 agrees with the
\* predicted byte and p7 = +-64 * L, negative iff the predicted bit is 0, with
\* |p7| <= 2048; if no match is alive p7 = 0.  Within a byte, a match that
\* disagrees with c0 is killed (matchLen = 0), a match that agrees is kept,
\* and without a match matchLen stays 0 and matchPos is unchanged.
C21_MatchPrediction ==
  [][ pc = "Update" =>
        /\ predictor'.matchLen > 0 =>
             /\ predictor'.c0 = C21_Expected(predictor'.buffer, predictor'.matchPos,
                                              predictor'.bpos)
             /\ C21_P7(predictor') =
                  (IF C21_ExpectedBit(predictor') = 0 THEN -64 ELSE 64)
                    * C21_L(predictor'.matchLen)
             /\ C21_P7(predictor') \in -2048..2048
        /\ predictor'.matchLen = 0 => C21_P7(predictor') = 0
        /\ predictor'.bpos # 0 =>
             /\ predictor'.matchPos = predictor.matchPos
             /\ predictor'.matchLen =
                  (IF predictor.matchLen > 0
                        /\ predictor'.c0 = C21_Expected(predictor.buffer, predictor.matchPos,
                                                         predictor'.bpos)
                   THEN predictor.matchLen ELSE 0)
    ]_vars

\* A match predicts a 1 bit: p7 is positive.
C21_Witness ==
  /\ pc = "Update" /\ calls > 0
  /\ predictor.matchLen > 0 /\ C21_ExpectedBit(predictor) = 1
  /\ C21_P7(predictor) = 64 * C21_L(predictor.matchLen)

\* A match has been killed within a byte.
C21_WitnessKilled ==
  /\ pc = "Update" /\ calls = 42 /\ predictor.bpos = 2
  /\ predictor.matchLen = 0 /\ predictor.matchPos = 2 /\ C21_P7(predictor) = 0

\* A match of the greatest length predicts a 0 bit: p7 is -2048.
C21_WitnessLongest ==
  /\ pc = "Update" /\ predictor.matchLen = TPAQ_MAX_LENGTH
  /\ C21_P7(predictor) = -2048

\* C22: matchLen is in 0..88 in every state of the predictor, and an Update
\* that completes a byte while a match is alive leaves the match one longer,
\* but no longer than 88, and one position further.
C22_MatchLenBounded ==
  [][ pc = "Update" =>
        /\ predictor.matchLen \in 0..88
        /\ predictor'.matchLen \in 0..88
        /\ (predictor'.bpos = 0 /\ predictor.matchLen > 0) =>
             /\ predictor'.matchLen =
                  (IF predictor.matchLen + 1 < 88 THEN predictor.matchLen + 1 ELSE 88)
             /\ predictor'.matchPos = predictor.matchPos + 1
    ]_vars

\* A match shorter than 88 has been extended at a byte boundary.
C22_Witness ==
  /\ pc = "Update" /\ calls = 40 /\ predictor.bpos = 0
  /\ predictor.matchLen = 2 /\ predictor.matchPos = 2

\* A match of length 88 has been extended at a byte boundary.
C22_WitnessCapped ==
  /\ pc = "Update" /\ calls = 24 /\ predictor.bpos = 0
  /\ predictor.matchLen = 88 /\ predictor.matchPos = 2

\* C23: when an Update that completes a byte detects a new match (no match
\* was alive before it), the length of the match is at most matchPos, the
\* number of bytes coded before the candidate position: cells of the buffer
\* that were never written are not counted.
C23_MatchCountsCodedBytes ==
  [][ (pc = "Update" /\ predictor.matchLen = 0
         /\ predictor'.bpos = 0 /\ predictor'.matchLen > 0)
        => predictor'.matchLen <= predictor'.matchPos
    ]_vars

\* A new match of length 1 has been detected at position 1.
C23_Witness ==
  /\ pc = "Update" /\ calls = 32 /\ predictor.bpos = 0
  /\ predictor.matchLen = 1 /\ predictor.matchPos = 1

\* C24: after every Update, whatever bits were fed and whatever value in
\* [0, 4095] the secondary map returned, Get returns at least 1.
C24_GetAtLeastOne == calls > 0 => Get(predictor) >= 1

\* The secondary map has returned 0 and Get returns 1.
C24_Witness == calls > 0 /\ sse = 0 /\ Get(predictor) = 1

\* CR and LF occur in blk only as the pair CR LF.
C28_OnlyPairs(blk) ==
  \A i \in 1..Len(blk) :
    /\ blk[i] = CR => (i < Len(blk) /\ blk[i + 1] = LF)
    /\ blk[i] = LF => (i > 1 /\ blk[i - 1] = CR)

\* C28: when Forward has written a status byte with the CRLF flag, computed
\* by computeStats, every CR of the block is followed by an LF and every LF
\* is preceded by a CR.
C28_CRLFOnlyForPairs ==
  (codec.kind = "Text" /\ pc # "Forward" /\ Len(encoded) > 0
     /\ encoded[1] % 2 = TC_MASK_CRLF /\ computeStats(block) % 2 = TC_MASK_CRLF)
    => C28_OnlyPairs(block)

\* The flag is set for a block whose CR and LF are paired, and the block
\* makes the round trip.
C28_Witness ==
  /\ codec.kind = "Text" /\ pc = "done" /\ Len(encoded) > 0
  /\ encoded[1] % 2 = TC_MASK_CRLF
  /\ \E i \in 1..Len(block) : block[i] = CR
  /\ C28_OnlyPairs(block)
  /\ decoded = block

\* Forward's main loop run from the state l to its end: the codec and the
\* number of words it ends with.
RECURSIVE C25_ForwardRun(_, _, _)
C25_ForwardRun(c, src, l) ==
  IF l.err # Nil \/ l.srcIdx >= Len(src) THEN [codec |-> c, words |-> l.words]
  ELSE With(TC_ForwardStep(c, src, l), LAMBDA s : C25_ForwardRun(s.codec, src, s.loc))

\* The dictionary Forward ends with on src, for the codec c as reset leaves it
\* (TC_ForwardBegin gives the state the main loop starts in).
C25_ForwardDict(c, src) ==
  With(CHOOSE k \in 0..Len(src) :
         /\ \A i \in 1..k : src[i] = 32
         /\ k < Len(src) => src[k + 1] # 32,
       LAMBDA spaces :
    C25_ForwardRun([TC_Reset(c) EXCEPT !.isCRLF = (computeStats(src) % 2 = 1)], src,
                   [ srcIdx |-> spaces, dstIdx |-> 1 + spaces, emitAnchor |-> spaces,
                     delimAnchor |-> IF isText(Byte(src, spaces))
                                     THEN spaces - 1 ELSE spaces,
                     words |-> c.staticDictSize, err |-> Nil ]))

\* The word reference Inverse is about to read at loc.srcIdx, if any.
C25_AtReference ==
  /\ pc = "InverseLoop" /\ loc.err = Nil /\ ~ loc.stop
  /\ loc.srcIdx < Len(encoded) /\ loc.dstIdx < loc.dstEnd
  /\ IF codec.variant = 1
     THEN Byte(encoded, loc.srcIdx) \in {TC_ESCAPE_TOKEN1, TC_ESCAPE_TOKEN2}
     ELSE Byte(encoded, loc.srcIdx) >= 128
C25_Reference ==
  IF codec.variant = 1 THEN TC_ReadIndex1(encoded, loc.srcIdx + 1)
  ELSE TC_ReadIndex2(encoded, Byte(encoded, loc.srcIdx), loc.srcIdx + 1)

\* C25: while Inverse decodes what a successful Forward wrote, every entry
\* it has inserted is the entry Forward inserted at the same index (same
\* word, same hash), it has inserted no more words than Forward, at every
\* word reference its entry at the referenced index is Forward's, and once it
\* has read all of its input its dictionary and hash map are Forward's.
C25_DictionaryLockstep ==
  (codec.kind = "Text" /\ pc \in {"InverseLoop", "done"}
     /\ Len(block) > 0 /\ ret.fwd.err = Nil)
    => With(C25_ForwardDict(codec, block), LAMBDA f :
         /\ \A i \in DOMAIN codec.dictList :
              i \in DOMAIN f.codec.dictList /\ codec.dictList[i] = f.codec.dictList[i]
         /\ loc.words <= f.words
         /\ (C25_AtReference /\ ~ C25_Reference.panic)
              => TC_DictList(codec, C25_Reference.idx)
                   = TC_DictList(f.codec, C25_Reference.idx)
         /\ (loc.err = Nil /\ ~ loc.stop /\ loc.srcIdx >= Len(encoded))
              => /\ codec.dictList = f.codec.dictList
                 /\ codec.dictMap = f.codec.dictMap
                 /\ loc.words = f.words)

\* Inverse has read a reference to a word that it had inserted itself, and
\* has written the block back.
C25_Witness ==
  /\ codec.kind = "Text" /\ pc = "done"
  /\ block = <<97, 98, 99, 100, 32, 97, 98, 99, 100, 32, 116, 104, 101, 32>>
  /\ ret.fwd.err = Nil /\ ret.inv.err = Nil /\ decoded = block
  /\ loc.words = codec.staticDictSize + 1
  /\ Len(encoded) < Len(block)

(***************************************************************************)
(* The insertion of words into the dictionary on its own: the block that   *)
(* Forward (lines 1089-1135) and Inverse (lines 1308-1352) run at the end  *)
(* of a word, applied to a codec after reset.  loc.words is the local      *)
(* variable words of the run, calls the number of words seen.              *)
(***************************************************************************)
Dict_MaxWords == 3

\* The sizes the dictionary list can have: what the constructors give
\* (4096 << k, 65536), and what expandDictionary makes of them.
Dict_Sizes == {2 ^ k : k \in 12..19}

\* The words met at a delimiter: too short, of three letters, of four, and
\* too long.
Dict_Words ==
  { <<97, 98>>, <<97, 98, 99>>, <<97, 98, 99, 100>>, <<119, 120, 121, 122>>,
    [i \in 1..TC_MAX_WORD_LENGTH |-> 97 + (i % 26)] }

\* The word that ends the block src is met with words insertions made.
Dict_Meet(c, words, word) ==
  TC_InverseWord(c, word \o <<32>>,
                 [delimAnchor |-> -1, srcIdx |-> Len(word), words |-> words])

\* The run has made words - staticDictSize insertions since reset.  Of the
\* entries they wrote the first two are kept (they are the first to be
\* written again once the index has wrapped); the others are written by no
\* later step before the index comes back to them.
Dict_After(c, words) ==
  IF words < c.staticDictSize + 2 THEN [codec |-> c, words |-> c.staticDictSize]
  ELSE With(Dict_Meet(c, c.staticDictSize, <<109, 110, 111, 112>>), LAMBDA a :
         [ codec |-> Dict_Meet(a.codec, a.words, <<113, 114, 115, 116>>).codec,
           words |-> words ])

InitDict ==
  /\ NoPredictor
  /\ \E ctx \in TC_Contexts, d \in Dict_Sizes, back \in {0, 1, 2} :
       /\ d >= TC_DSizeOf(ctx)
       /\ \E s \in { Dict_After(TC_Reset([NewTextCodecWithCtx(ctx) EXCEPT !.dictSize = d]),
                                IF back = 0 THEN 0 ELSE d - back) } :
            /\ codec = s.codec
            /\ loc = [words |-> s.words]
  /\ block = <<>>
  /\ encoded = <<>>
  /\ decoded = <<>>
  /\ pc = "word"
  /\ ret = <<>>

\* One word of the run: looked up, and inserted if it is not found.
Dict_Word ==
  /\ pc = "word"
  /\ calls < Dict_MaxWords
  /\ \E word \in Dict_Words :
       \E s \in {Dict_Meet(codec, loc.words, word)} :
         /\ codec' = s.codec
         /\ loc' = [words |-> s.words]
         /\ block' = word
  /\ calls' = calls + 1
  /\ UNCHANGED <<predictor, ones, bit, sse, encoded, decoded, pc, ret>>

NextDict == Dict_Word

SpecDict == InitDict /\ [][NextDict]_vars

\* C26: a word met during a run leaves staticDictSize <= words < dictSize
\* <= 2^19; dictSize stays or doubles, and doubles only when the list is
\* full; words stays, goes up by one, or, when the list is full and at 2^19
\* entries, goes back to staticDictSize; the only entry written is the one at
\* the index words had, which is not a static one.
C26_DictionaryBounds ==
  [][ pc = "word" =>
        /\ codec.staticDictSize <= loc'.words
        /\ loc'.words < codec'.dictSize
        /\ codec'.dictSize <= 524288
        /\ codec'.staticDictSize = codec.staticDictSize
        /\ \/ codec'.dictSize = codec.dictSize
           \/ /\ codec'.dictSize = 2 * codec.dictSize
              /\ loc.words + 1 = codec.dictSize
              /\ loc'.words = codec.dictSize
        /\ \/ loc'.words = loc.words /\ codec'.dictList = codec.dictList
           \/ loc'.words = loc.words + 1
           \/ /\ loc'.words = codec.staticDictSize
              /\ loc.words + 1 = codec.dictSize
              /\ codec.dictSize = 524288
        /\ \A i \in DOMAIN codec'.dictList :
             /\ i >= codec.staticDictSize
             /\ i < codec'.dictSize
             /\ i # loc.words => (i \in DOMAIN codec.dictList
                                   /\ codec'.dictList[i] = codec.dictList[i])
    ]_vars

\* The list is full at 2^19 entries: the index has gone back to the first
\* dynamic entry, and the next word has replaced the word that was there.
C26_Witness ==
  /\ pc = "word" /\ codec.kind = "Text"
  /\ calls = 2
  /\ codec.dictSize = 524288
  /\ loc.words = codec.staticDictSize + 1
  /\ codec.staticDictSize \in DOMAIN codec.dictList
  /\ codec.dictList[codec.staticDictSize].ptr = block
  /\ block # <<109, 110, 111, 112>>

\* The list was full at 4096 entries and has doubled.
C26_WitnessGrown ==
  /\ pc = "word" /\ codec.kind = "Text"
  /\ calls = 1
  /\ codec.dictSize = 8192
  /\ loc.words = 4096

(***************************************************************************)
(* The word index on its own: emitWordIndex1 (after the escape token that  *)
(* Forward writes before it) or emitWordIndex2 writes the index loc.val to *)
(* encoded, then the Inverse of the same variant reads it back into ret.   *)
(***************************************************************************)
Idx_Near == 3
Idx_Stride == 1021

\* The indices: those around the limits of the size classes of both variants
\* and of the range, and one in every Idx_Stride.
Idx_Values ==
  { v \in UNION { (b - Idx_Near)..(b + Idx_Near) :
                    b \in {0, TC_THRESHOLD3, TC_THRESHOLD1, TC_THRESHOLD4,
                           TC_THRESHOLD2, TC_MAX_DICT_SIZE} } :
      v >= 0 /\ v < TC_MAX_DICT_SIZE }
    \cup { k * Idx_Stride : k \in 0..((TC_MAX_DICT_SIZE - 1) \div Idx_Stride) }

InitIndex ==
  /\ NoPredictor
  /\ codec \in {newTextCodec1, newTextCodec2WithCtx([textcodec |-> 2])}
  /\ \E v \in Idx_Values, mask \in {0, 32} :
       /\ codec.variant = 1 => mask = 0
       /\ loc = [val |-> v, mask |-> mask]
  /\ block = <<>>
  /\ encoded = <<>>
  /\ decoded = <<>>
  /\ pc = "emitWordIndex"
  /\ ret = <<>>

\* Forward, lines 1146-1158 (variant 2: 1682): the reference is written.
Idx_Emit ==
  /\ pc = "emitWordIndex"
  /\ encoded' = IF codec.variant = 1
                THEN <<TC_ESCAPE_TOKEN1>> \o emitWordIndex1(loc.val)
                ELSE emitWordIndex2(loc.val, loc.mask)
  /\ pc' = "readIndex"
  /\ UNCHANGED <<codec, block, decoded, loc, ret>>
  /\ UNCHANGED tpaqVars

\* Inverse, lines 1354-1378 (variant 2: 1902-1926, 1946): cur is read, then
\* the index; bit 5 of cur tells variant 2 to toggle the case.
Idx_Read ==
  /\ pc = "readIndex"
  /\ \E cur \in {Byte(encoded, 0)} :
       \E r \in { IF codec.variant = 1 THEN TC_ReadIndex1(encoded, 1)
                  ELSE TC_ReadIndex2(encoded, cur, 1) } :
         ret' = [ idx |-> r.idx, next |-> r.next, panic |-> r.panic,
                  flip |-> codec.variant = 2 /\ (cur \div 32) % 2 = 1 ]
  /\ pc' = "indexRead"
  /\ UNCHANGED <<codec, block, encoded, decoded, loc>>
  /\ UNCHANGED tpaqVars

NextIndex ==
  \/ Idx_Emit
  \/ Idx_Read

SpecIndex == InitIndex /\ [][NextIndex]_vars

\* The number of bytes of the index v: limits 128 and 16384 for variant 1,
\* 32 and 4096 for variant 2.
C27_Size(variant, v) ==
  IF v < (IF variant = 1 THEN 128 ELSE 32) THEN 1
  ELSE IF v < (IF variant = 1 THEN 16384 ELSE 4096) THEN 2
  ELSE 3

\* What Idx_Emit then Idx_Read give for the index v: the bytes written and
\* the index read back from them.
C27_Written(variant, v, mask) ==
  IF variant = 1 THEN <<TC_ESCAPE_TOKEN1>> \o emitWordIndex1(v) ELSE emitWordIndex2(v, mask)
C27_ReadBack(variant, bytes) ==
  IF variant = 1 THEN TC_ReadIndex1(bytes, 1) ELSE TC_ReadIndex2(bytes, bytes[1], 1)
C27_All(variant, mask) ==
  \A v \in 0..(TC_MAX_DICT_SIZE - 1) :
    With(C27_Written(variant, v, mask), LAMBDA bytes :
    With(C27_ReadBack(variant, bytes), LAMBDA r :
      /\ ~ r.panic /\ r.idx = v /\ r.next = Len(bytes)
      /\ variant = 2 => ((bytes[1] \div 32) % 2 = 1) = (mask = 32)
      /\ Len(bytes) = C27_Size(variant, v) + (IF variant = 1 THEN 1 ELSE 0)))

\* C27: the index written by emitWordIndex1, or by emitWordIndex2 with either
\* mask, takes 1, 2 or 3 bytes by its size class, and the Inverse of the same
\* variant reads back the same index (and, variant 2, the same toggle-case
\* bit), ending exactly after the bytes written.  The state of index 0 stands
\* for the whole range [0, 2^19): the same is computed there for every index.
C27_IndexRoundTrip ==
  pc = "indexRead" =>
    /\ loc.val = 0 => C27_All(codec.variant, loc.mask)
    /\ ~ ret.panic
    /\ ret.idx = loc.val
    /\ ret.flip = (loc.mask = 32)
    /\ ret.next = Len(encoded)
    /\ Len(encoded) = C27_Size(codec.variant, loc.val) + (IF codec.variant = 1 THEN 1 ELSE 0)

\* Both variants have read back a three-byte, a two-byte and a one-byte index.
C27_Witness ==
  /\ pc = "indexRead" /\ codec.variant = 2 /\ loc.mask = 32
  /\ loc.val = 524287 /\ Len(encoded) = 3 /\ ret.idx = 524287 /\ ret.flip
C27_WitnessTwoBytes ==
  /\ pc = "indexRead" /\ codec.variant = 1
  /\ loc.val = 16383 /\ Len(encoded) = 3 /\ ret.idx = 16383

\* C29: X86Codec.Forward on a block that passes the jump filter writes no
\* byte at or beyond index MaxEncodedLen(len(src)) of dst: what it has written
\* is at most that long, and it does not stop on an index of dst out of range
\* (dst has MaxEncodedLen(len(src)) bytes).
C29_WritesWithinMaxEncodedLen ==
  (codec.kind = "X86" /\ Len(block) > 0 /\ pc # "Forward"
     /\ ret.fwd.err # "Not a binary or not enough jumps")
    => /\ Len(encoded) <= X86_MaxEncodedLen(Len(block))
       /\ pc = "ForwardLoop" => loc.err # "panic"
       /\ ret.fwd.err # "panic"

\* A block with 32 conflicts is written in exactly MaxEncodedLen(len(src))
\* bytes.
C29_Witness ==
  /\ codec.kind = "X86" /\ pc = "done"
  /\ block \in X86_DenseBlocks
  /\ ret.fwd.err = Nil
  /\ ret.fwd.written = X86_MaxEncodedLen(Len(block))
  /\ Len(encoded) = Len(block) + 32
  /\ decoded = block

\* A block with 33 conflicts: Forward has stopped on an index of dst out of
\* range after writing 99 bytes, with the last 8 bytes of the block to copy.
C29_WitnessOverflow ==
  /\ codec.kind = "X86" /\ pc = "Inverse"
  /\ block = [i \in 1..66 |-> IF i % 2 = 1 THEN 232 ELSE 0] \o Copies(0, 8)
  /\ ret.fwd = Returned(66, 99, "panic")
  /\ 99 + 8 > X86_MaxEncodedLen(Len(block))

\* The length of the run that the step of Forward from this state writes.
C30_Run ==
  IF loc.srcIdx < Len(block) - 4
  THEN loc.run + RLT_Same(block, loc.srcIdx, loc.prev)
  ELSE loc.run

\* The number of bytes of the length of a run of n bytes, the two-byte
\* lengths starting at a and the three-byte lengths at b.
C30_Size(n, a, b) == IF n < a THEN 1 ELSE IF n < b THEN 2 ELSE 3

\* emitRunLength then the Inverse's decoding, for every run length from 4 to
\* the longest that fits three bytes: the length takes the bytes of its class
\* and is read back as the same run (the byte of the run, then run - 1 copies).
C30_All(a, b) ==
  \A n \in 4..(RLT_MAX_RUN + 1) :
    With(emitRunLength(8, n, 255, 0), LAMBDA e :
      /\ e.err = Nil
      /\ Len(e.bytes) = 2 + C30_Size(n, a, b)
      /\ With(RLT_RunLength(e.bytes, 3, e.bytes[3]), LAMBDA r :
           /\ r.err = Nil
           /\ r.n = C30_Size(n, a, b) - 1
           /\ r.run + 1 = n))

\* The steps of Forward and Inverse with the two-byte lengths starting at a and
\* the three-byte lengths at b: a step of Forward's loop that writes a run
\* writes the byte of the run (and 0 after it if it is the escape symbol), the
\* escape symbol and a length of the size of its class; Inverse gives back the
\* blocks with a run at the end of a class; and the same holds of
\* emitRunLength and the decoding for every run length.
C30_Step(a, b) ==
  /\ (pc = "ForwardLoop" /\ pc' = "ForwardLoop" /\ encoded' # encoded
        /\ C30_Run > RLT_RUN_THRESHOLD)
       => Len(encoded') - Len(encoded)
            = (IF loc.prev = loc.escape THEN 3 ELSE 2) + C30_Size(C30_Run, a, b)
  /\ (pc' = "done" /\ block \in RLT_LongRuns)
       => (ret'.fwd.err = Nil /\ ret'.inv.err = Nil /\ decoded' = block)
  /\ (pc = "Forward" /\ block = RLT_Example) => C30_All(a, b)

\* C30 as the file header words it: one byte for 4 <= runLen < 228, two
\* bytes for 228 <= runLen < 7172, three bytes from 7172 on, and Inverse
\* decodes each class back to the same run.
C30_HeaderClasses == [][C30_Step(228, 7172)]_vars

\* What holds instead, with the limits of the code: one byte for
\* 4 <= runLen < 227, two bytes for 227 <= runLen < 7939 (RUN_LEN_ENCODE2 is
\* 31 * 256 = 7936), three bytes from 7939 to 73474, and Inverse decodes each
\* class back to the same run.
C30_CodeClasses == [][C30_Step(227, 7939)]_vars

\* A run of 227 bytes, the shortest with a two-byte length, has gone through
\* Forward and Inverse.
C30_Witness ==
  /\ pc = "done" /\ codec.kind = "RLT"
  /\ block = <<9>> \o Copies(0, 227) \o <<1, 2, 3, 4, 5, 6>>
  /\ ret.fwd.err = Nil /\ ret.inv.err = Nil /\ decoded = block
  /\ encoded = <<7, 9, 0, 7, 224, 0, 1, 2, 3, 4, 5, 6>>

\* A run of 7939 bytes, the shortest with a three-byte length, has gone through
\* Forward and Inverse.
C30_WitnessThreeBytes ==
  /\ pc = "done" /\ codec.kind = "RLT"
  /\ block = <<9>> \o Copies(0, 7939) \o <<1, 2, 3, 4, 5, 6>>
  /\ ret.fwd.err = Nil /\ ret.inv.err = Nil /\ decoded = block
  /\ encoded = <<7, 9, 0, 7, 255, 0, 0, 1, 2, 3, 4, 5, 6>>
====
